---- MODULE Spec2Model ----
(***************************************************************************)
(* SignalWeaver: conflict matcher, decision state machine, gate log,       *)
(* decision traces and replay, modelled from backend/src/app.              *)
(*                                                                         *)
(* A text is a sequence of characters; a character is a one-element        *)
(* string, except U+00A3 and U+20AC which are the atoms POUND and EURO.    *)
(***************************************************************************)
EXTENDS Integers, Sequences, FiniteSets, TLC

\* ------------------------------------------------------------------------
\* Characters
\* ------------------------------------------------------------------------
POUND == "<pound>"
EURO == "<euro>"

UpperAlpha ==
  <<"A","B","C","D","E","F","G","H","I","J","K","L","M",
    "N","O","P","Q","R","S","T","U","V","W","X","Y","Z">>

LowerAlpha ==
  <<"a","b","c","d","e","f","g","h","i","j","k","l","m",
    "n","o","p","q","r","s","t","u","v","w","x","y","z">>

DigitChars == <<"0","1","2","3","4","5","6","7","8","9">>

Range(f) == { f[i] : i \in DOMAIN f }

UpperSet == Range(UpperAlpha)
LowerSet == Range(LowerAlpha)
DigitSet == Range(DigitChars)
WhiteSpace == {" ", "\t", "\n"}
CurrencySet == {POUND, "$", EURO}

\* [a-z0-9]
IsAlnumLower(c) == c \in LowerSet \/ c \in DigitSet
\* \w
IsWordChar(c) == c \in LowerSet \/ c \in UpperSet \/ c \in DigitSet \/ c = "_"

LowerChar(c) ==
  IF c \in UpperSet
    THEN LowerAlpha[CHOOSE i \in 1..26 : UpperAlpha[i] = c]
    ELSE c

DigitVal(c) == (CHOOSE i \in 1..10 : DigitChars[i] = c) - 1

\* ------------------------------------------------------------------------
\* str methods
\* ------------------------------------------------------------------------
lower(s) == [i \in 1..Len(s) |-> LowerChar(s[i])]

RECURSIVE lstrip(_)
lstrip(s) ==
  IF s # <<>> /\ Head(s) \in WhiteSpace THEN lstrip(Tail(s)) ELSE s

RECURSIVE rstrip(_)
rstrip(s) ==
  IF s # <<>> /\ s[Len(s)] \in WhiteSpace
    THEN rstrip(SubSeq(s, 1, Len(s) - 1))
    ELSE s

strip(s) == rstrip(lstrip(s))

\* s.split(): maximal runs of non-whitespace characters
RECURSIVE SplitFrom(_, _, _, _)
SplitFrom(s, i, cur, acc) ==
  IF i > Len(s)
    THEN IF cur = <<>> THEN acc ELSE Append(acc, cur)
    ELSE IF s[i] \in WhiteSpace
      THEN SplitFrom(s, i + 1, <<>>,
                     IF cur = <<>> THEN acc ELSE Append(acc, cur))
      ELSE SplitFrom(s, i + 1, Append(cur, s[i]), acc)

split(s) == SplitFrom(s, 1, <<>>, <<>>)

\* sep.join(parts)
RECURSIVE join(_, _)
join(sep, parts) ==
  IF parts = <<>> THEN <<>>
  ELSE IF Len(parts) = 1 THEN parts[1]
  ELSE parts[1] \o sep \o join(sep, Tail(parts))

\* sub in s
contains(s, sub) ==
  \E i \in 1..(Len(s) - Len(sub) + 1) : SubSeq(s, i, i + Len(sub) - 1) = sub

endswith(s, suf) ==
  Len(s) >= Len(suf) /\ SubSeq(s, Len(s) - Len(suf) + 1, Len(s)) = suf

\* ------------------------------------------------------------------------
\* Text normalizer (api/gate.py)
\* ------------------------------------------------------------------------
SP == <<" ">>
NOT == <<"n","o","t">>

_norm(s) == join(SP, split(lower(strip(s))))

_has_not(s) == contains(SP \o _norm(s) \o SP, SP \o NOT \o SP)

_strip_not(s) == join(SP, SelectSeq(split(_norm(s)), LAMBDA tok : tok # NOT))

filler ==
  { <<"a">>, <<"a","n">>, <<"t","h","e">>, <<"t","o">>, <<"a","n","d">>,
    <<"o","r">>, <<"o","f">>, <<"i","n">>, <<"o","n">>, <<"f","o","r">> }

stop ==
  filler \cup
  { <<"i">>, <<"y","o","u">>, <<"w","e">>, <<"i","t">>, <<"i","s">>,
    <<"a","r","e">>, <<"b","e">>, <<"w","i","l","l">>, NOT, <<"d","o">> }

_stem(t) ==
  IF endswith(t, <<"i","n","g">>) /\ Len(t) > 5 THEN SubSeq(t, 1, Len(t) - 3)
  ELSE IF endswith(t, <<"e","d">>) /\ Len(t) > 4 THEN SubSeq(t, 1, Len(t) - 2)
  ELSE IF endswith(t, <<"s">>) /\ Len(t) > 4 THEN SubSeq(t, 1, Len(t) - 1)
  ELSE t

\* re.findall(r"[a-z0-9]+", s): maximal runs of [a-z0-9]
RECURSIVE FindallFrom(_, _, _, _)
FindallFrom(s, i, cur, acc) ==
  IF i > Len(s)
    THEN IF cur = <<>> THEN acc ELSE Append(acc, cur)
    ELSE IF ~IsAlnumLower(s[i])
      THEN FindallFrom(s, i + 1, <<>>,
                       IF cur = <<>> THEN acc ELSE Append(acc, cur))
      ELSE FindallFrom(s, i + 1, Append(cur, s[i]), acc)

findall_alnum(s) == FindallFrom(s, 1, <<>>, <<>>)

_meaningful_tokens(s) ==
  LET raw_tokens == findall_alnum(_norm(s))
      stemmed == [i \in 1..Len(raw_tokens) |-> _stem(raw_tokens[i])]
  IN  SelectSeq(stemmed, LAMBDA t : ~(Len(t) < 3) /\ t \notin stop)

_bigrams(tokens) ==
  { tokens[i] \o SP \o tokens[i + 1] : i \in 1..(Len(tokens) - 1) }

\* ------------------------------------------------------------------------
\* Monetary domain trigger helpers
\* ------------------------------------------------------------------------
REFUND == <<"r","e","f","u","n","d">>

\* _REFUND_RE = \brefund\w*\b, IGNORECASE
_has_refund_word(text) ==
  \E i \in 1..(Len(text) - 5) :
    /\ lower(SubSeq(text, i, i + 5)) = REFUND
    /\ (i = 1 \/ ~IsWordChar(text[i - 1]))

\* An amount is [whole, frac]: the integer value and the fractional digits.
ZeroAmt == [whole |-> 0, frac |-> <<>>]

FracNonZero(f) == \E i \in 1..Len(f) : f[i] # "0"

RECURSIVE FracGreater(_, _)
FracGreater(f, g) ==
  IF f = <<>> THEN FALSE
  ELSE IF g = <<>> THEN FracNonZero(f)
  ELSE IF DigitVal(Head(f)) # DigitVal(Head(g))
    THEN DigitVal(Head(f)) > DigitVal(Head(g))
    ELSE FracGreater(Tail(f), Tail(g))

AmtGreater(x, y) ==
  x.whole > y.whole \/ (x.whole = y.whole /\ FracGreater(x.frac, y.frac))

AmtGreaterInt(x, n) == AmtGreater(x, [whole |-> n, frac |-> <<>>])

\* first position >= i whose character is not in the set Cs
RECURSIVE SkipWhile(_, _, _)
SkipWhile(s, i, Cs) ==
  IF i <= Len(s) /\ s[i] \in Cs THEN SkipWhile(s, i + 1, Cs) ELSE i

RECURSIVE DigitsValue(_, _)
DigitsValue(ds, acc) ==
  IF ds = <<>> THEN acc
  ELSE DigitsValue(Tail(ds), IF Head(ds) = "," THEN acc
                                ELSE 10 * acc + DigitVal(Head(ds)))

\* One match of _MONEY_RE starting at the currency symbol at position i:
\* (symbol)\s*([0-9][0-9,]*(?:\.[0-9]+)?).  Returns [ok, end, amt].
MoneyMatchAt(s, i) ==
  LET d  == SkipWhile(s, i + 1, WhiteSpace)
      e  == SkipWhile(s, d, DigitSet \cup {","})
      f  == IF e <= Len(s) /\ s[e] = "."
              THEN SkipWhile(s, e + 1, DigitSet)
              ELSE e
      hasFrac == f > e + 1
  IN  IF s[i] \in CurrencySet /\ d <= Len(s) /\ s[d] \in DigitSet
        THEN [ok |-> TRUE,
              end |-> IF hasFrac THEN f ELSE e,
              amt |-> [whole |-> DigitsValue(SubSeq(s, d, e - 1), 0),
                       frac  |-> IF hasFrac THEN SubSeq(s, e + 1, f - 1)
                                            ELSE <<>>]]
        ELSE [ok |-> FALSE, end |-> i + 1, amt |-> ZeroAmt]

RECURSIVE MaxMoneyFrom(_, _, _)
MaxMoneyFrom(s, i, max_amt) ==
  IF i > Len(s) THEN max_amt
  ELSE LET m == MoneyMatchAt(s, i)
       IN  MaxMoneyFrom(s, m.end,
             IF m.ok /\ AmtGreater(m.amt, max_amt) THEN m.amt ELSE max_amt)

_max_money_amount(text) == MaxMoneyFrom(text, 1, ZeroAmt)

\* ------------------------------------------------------------------------
\* Conflict matcher.  An anchor object is [id, level, statement, scope, active].
\* ------------------------------------------------------------------------
PAYMENTS_REFUNDS == <<"p","a","y","m","e","n","t","s",".","r","e","f","u","n","d","s">>

\* the money threshold of the domain trigger
MONEY_THRESHOLD == 100

\* a rule 1 that sees only a negated request against a plain statement
NegationRule_request_only(request_summary, statement) ==
  /\ _strip_not(_norm(request_summary)) = _strip_not(_norm(statement))
  /\ _has_not(_norm(request_summary))
  /\ ~_has_not(_norm(statement))

\* rule 1: the request and the statement are equal without "not" and
\* exactly one of them is negated
NegationRule(request_summary, statement) ==
  LET req_norm == _norm(request_summary)
      stmt_norm == _norm(statement)
  IN  /\ _strip_not(req_norm) = _strip_not(stmt_norm)
      /\ _has_not(req_norm) # _has_not(stmt_norm)

\* rule 2: bigram overlap >= 1 or token overlap >= 2
LexicalRule(request_summary, statement) ==
  LET req_tokens == _meaningful_tokens(_norm(request_summary))
      stmt_tokens == _meaningful_tokens(_norm(statement))
      token_overlap == Cardinality(Range(req_tokens) \cap Range(stmt_tokens))
      bigram_overlap ==
        Cardinality(_bigrams(req_tokens) \cap _bigrams(stmt_tokens))
  IN  bigram_overlap >= 1 \/ token_overlap >= 2

\* rule 3: refund word and amount above the threshold
RefundRule(request_summary) ==
  /\ _has_refund_word(request_summary)
  /\ AmtGreaterInt(_max_money_amount(request_summary), MONEY_THRESHOLD)

\* ------------------------------------------------------------------------
\* Input pools.  The rules above are evaluated once for the texts of the
\* pools; any other text is evaluated on demand.
\* ------------------------------------------------------------------------
S_global == <<"g","l","o","b","a","l">>
S_smoke == <<"s","m","o","k","e","_","a">>
S_payments == <<"p","a","y","m","e","n","t","s">>

T_cats_allowed == <<"c","a","t","s"," ","a","r","e"," ","a","l","l","o","w","e","d">>
T_cats_not_allowed == <<"c","a","t","s"," ","a","r","e"," ","n","o","t"," ","a","l","l","o","w","e","d">>
T_will_not_go == <<"w","e"," ","w","i","l","l"," ","n","o","t"," ","g","o">>
T_will_go == <<"w","e"," ","w","i","l","l"," ","g","o">>
T_breach == <<"s","m","o","k","e"," ","t","e","s","t"," ","d","o"," ","n","o","t"," ","b","r","e","a","c","h"," ","s","m","o","k","e"," ","w","a","l","l">>
T_break_into == <<"b","r","e","a","k"," ","i","n","t","o"," ","s","m","o","k","e"," ","w","a","l","l">>
T_payments == <<"D","o"," ","n","o","t"," ","p","r","o","c","e","s","s"," ","p","a","y","m","e","n","t","s"," ","a","b","o","v","e"," ",POUND,"1","0","0"," ","w","i","t","h","o","u","t"," ","e","x","p","l","i","c","i","t"," ","u","s","e","r"," ","r","e","v","i","e","w">>
T_refund_10000 == <<"R","e","f","u","n","d"," ",POUND,"1","0","0","0","0"," ","t","o"," ","c","u","s","t","o","m","e","r">>
T_refund_100 == <<"r","e","f","u","n","d"," ",POUND,"1","0","0",".","0","0"," ","t","o"," ","c","u","s","t","o","m","e","r">>

AnchorIn(level, statement, scope) ==
  [level |-> level, statement |-> statement, scope |-> scope]

\* anchors an operator may create (TruthAnchorCreate payloads)
AnchorPool ==
  { AnchorIn(1, T_cats_allowed, S_global),
    AnchorIn(2, T_will_not_go, S_global),
    AnchorIn(3, T_breach, S_smoke) }

\* request summaries a caller may submit
RequestPool == { T_cats_not_allowed, T_will_go, T_break_into }

\* anchors created and request summaries submitted where profiles are used
ProfileAnchorPool ==
  { AnchorIn(2, T_will_not_go, S_global),
    AnchorIn(3, T_breach, S_smoke) }

ProfileRequestPool == { T_will_go }


\* the refund scenario: the seeded payments anchor and refund requests
RefundAnchorPool ==
  { AnchorIn(3, T_payments, S_payments),
    AnchorIn(3, T_payments, PAYMENTS_REFUNDS) }

RefundRequestPool == { T_refund_10000, T_refund_100, T_will_go }

\* ------------------------------------------------------------------------
\* Tool-call summaries of the MCP wrapper (mcp_demo/server.py)
\* ------------------------------------------------------------------------
\* str(n) for n >= 0
RECURSIVE IntToStr(_)
IntToStr(n) ==
  IF n < 10 THEN <<DigitChars[n + 1]>>
  ELSE IntToStr(n \div 10) \o <<DigitChars[(n % 10) + 1]>>

N_send_email == <<"s","e","n","d","_","e","m","a","i","l">>
N_delete_file == <<"d","e","l","e","t","e","_","f","i","l","e">>
N_process_payment == <<"p","r","o","c","e","s","s","_","p","a","y","m","e","n","t">>
N_read_file == <<"r","e","a","d","_","f","i","l","e">>
N_run_shell_command == <<"r","u","n","_","s","h","e","l","l","_","c","o","m","m","a","n","d">>
N_sw_check_health == <<"s","w","_","c","h","e","c","k","_","h","e","a","l","t","h">>
N_sw_list_anchors == <<"s","w","_","l","i","s","t","_","a","n","c","h","o","r","s">>
N_sw_get_logs == <<"s","w","_","g","e","t","_","l","o","g","s">>
N_nope == <<"n","o","p","e">>
K_command == <<"c","o","m","m","a","n","d">>
K_path == <<"p","a","t","h">>
K_limit == <<"l","i","m","i","t">>
T_tool_call == <<"t","o","o","l"," ","c","a","l","l",":"," ">>
T_no_args == <<"n","o"," ","a","r","g","s">>
T_True == <<"T","r","u","e">>
T_False == <<"F","a","l","s","e">>

\* argument values: a str, an int, a bool, or a value of another type
StrArg(s) == [type |-> "str", s |-> s, n |-> 0]
IntArg(n) == [type |-> "int", s |-> <<>>, n |-> n]
BoolArg(b) == [type |-> "bool", s |-> <<>>, n |-> IF b THEN 1 ELSE 0]
OtherArg(type_name) == [type |-> "other", s |-> type_name, n |-> 0]

\* repr of a str without backslashes or control characters
repr(s) ==
  LET q == IF "'" \in Range(s) /\ "\"" \notin Range(s) THEN "\"" ELSE "'"
  IN  <<q>> \o s \o <<q>>

\* one "k=v" part; ints are non-negative
ArgPart(k, v) ==
  IF v.type = "str" /\ Len(v.s) < 80 THEN k \o <<"=">> \o repr(v.s)
  ELSE IF v.type = "int" THEN k \o <<"=">> \o IntToStr(v.n)
  ELSE IF v.type = "bool"
    THEN k \o <<"=">> \o (IF v.n = 1 THEN T_True ELSE T_False)
  ELSE k \o <<"=", "[">> \o (IF v.type = "str" THEN <<"s","t","r">> ELSE v.s)
         \o <<"]">>

_summarise_call(tool_name, arguments) ==
  LET arg_parts ==
        [i \in 1..Len(arguments) |-> ArgPart(arguments[i][1], arguments[i][2])]
      args_str == IF arg_parts # <<>> THEN join(<<",", " ">>, arg_parts)
                  ELSE T_no_args
  IN  T_tool_call \o tool_name \o <<"(">> \o args_str \o <<")">>

\* tool calls a client may make
McpCalls ==
  { [name |-> N_run_shell_command, arguments |-> << <<K_command, StrArg(T_break_into)>> >>],
    [name |-> N_read_file, arguments |-> << <<K_path, StrArg(<<"a">>)>> >>],
    [name |-> N_sw_get_logs, arguments |-> << <<K_limit, IntArg(10)>> >>],
    [name |-> N_nope, arguments |-> <<>>] }

\* the summaries the wrapper posts to /gate/evaluate
McpRequestPool == { _summarise_call(c.name, c.arguments) : c \in McpCalls }

AllRequests ==
  { r : r \in RequestPool \cup RefundRequestPool \cup McpRequestPool }
\* anchors handed to the lexical matcher on its own: the pools above, and
\* a refunds anchor that shares two tokens with the refund requests
T_refund_review == <<"R","e","f","u","n","d"," ","t","o"," ","c","u","s","t","o","m","e","r"," ","n","e","e","d","s"," ","r","e","v","i","e","w">>

NaiveAnchorPool ==
  AnchorPool \cup RefundAnchorPool
    \cup { AnchorIn(2, T_refund_review, PAYMENTS_REFUNDS) }

AllStatements == { p.statement : p \in NaiveAnchorPool }
TextPairs == { <<r, st>> : r \in AllRequests, st \in AllStatements }

NormTable == { <<r, _norm(r)>> : r \in AllRequests }

NormOf(text) ==
  IF text \in AllRequests
    THEN (CHOOSE e \in NormTable : e[1] = text)[2]
    ELSE _norm(text)

NegationPairs == { <<p, NegationRule(p[1], p[2])>> : p \in TextPairs }
LexicalPairs == { <<p, LexicalRule(p[1], p[2])>> : p \in TextPairs }
RefundRequests == { <<r, RefundRule(r)>> : r \in AllRequests }

NegationConflict(request_summary, a) ==
  IF <<request_summary, a.statement>> \in TextPairs
    THEN <<<<request_summary, a.statement>>, TRUE>> \in NegationPairs
    ELSE NegationRule(request_summary, a.statement)

LexicalConflict(request_summary, a) ==
  IF <<request_summary, a.statement>> \in TextPairs
    THEN <<<<request_summary, a.statement>>, TRUE>> \in LexicalPairs
    ELSE LexicalRule(request_summary, a.statement)

RefundTrigger(request_summary) ==
  IF request_summary \in AllRequests
    THEN <<request_summary, TRUE>> \in RefundRequests
    ELSE RefundRule(request_summary)

RECURSIVE AppendRefundHits(_, _)
AppendRefundHits(anchors, hits) ==
  IF anchors = <<>> THEN hits
  ELSE LET a == Head(anchors)
       IN  AppendRefundHits(Tail(anchors),
             IF /\ a.active
                /\ a.scope = PAYMENTS_REFUNDS
                /\ \A i \in 1..Len(hits) : hits[i].id # a.id
               THEN Append(hits, a)
               ELSE hits)

\* a monetary trigger that appends without looking at the hits so far
naive_conflicts_no_dedup(request_summary, anchors) ==
  LET hits == SelectSeq(anchors,
                LAMBDA a : \/ NegationConflict(request_summary, a)
                           \/ LexicalConflict(request_summary, a))
  IN  IF RefundTrigger(request_summary)
        THEN hits \o SelectSeq(anchors, LAMBDA a : a.active /\ a.scope = PAYMENTS_REFUNDS)
        ELSE hits

naive_conflicts(request_summary, anchors) ==
  LET hits == SelectSeq(anchors,
                LAMBDA a : \/ NegationConflict(request_summary, a)
                           \/ LexicalConflict(request_summary, a))
  IN  IF RefundTrigger(request_summary)
        THEN AppendRefundHits(anchors, hits)
        ELSE hits

\* ------------------------------------------------------------------------
\* Explanation builder.  An explanation string is modelled by the parts it
\* is formatted from: [header, kind, evidence].
\* ------------------------------------------------------------------------
high_risk_phrases ==
  { <<"b","r","e","a","k"," ","i","n","t","o">>,
    <<"b","r","e","a","k"," ","i","n">>,
    <<"b","y","p","a","s","s">>,
    <<"l","o","c","k","p","i","c","k">>,
    <<"p","i","c","k"," ","l","o","c","k">>,
    <<"h","o","t","w","i","r","e">>,
    <<"s","l","i","m"," ","j","i","m">>,
    <<"j","i","m","m","y">>,
    <<"f","o","r","c","e","d"," ","e","n","t","r","y">>,
    <<"s","t","e","a","l">>,
    <<"t","h","e","f","t">> }

\* the rule an explanation names and the evidence it cites
Evidence(request_summary, statement) ==
  LET req_norm == _norm(request_summary)
      stmt_norm == _norm(statement)
      high_risk_hits == { p \in high_risk_phrases : contains(req_norm, p) }
      req_tokens == _meaningful_tokens(req_norm)
      stmt_tokens == _meaningful_tokens(stmt_norm)
      matched_tokens == Range(req_tokens) \cap Range(stmt_tokens)
      matched_bigrams == _bigrams(req_tokens) \cap _bigrams(stmt_tokens)
  IN  IF /\ _strip_not(req_norm) = _strip_not(stmt_norm)
         /\ _has_not(req_norm) # _has_not(stmt_norm)
        THEN [kind |-> "semantic inversion", evidence |-> {}]
      ELSE IF high_risk_hits # {}
        THEN [kind |-> "high-risk intent phrasing", evidence |-> high_risk_hits]
      ELSE IF matched_bigrams # {}
        THEN [kind |-> "meaningful phrase", evidence |-> matched_bigrams]
      ELSE IF matched_tokens # {}
        THEN [kind |-> "multiple meaningful keywords",
              evidence |-> matched_tokens]
      ELSE [kind |-> "current matching rules", evidence |-> {}]

EvidenceTable == { <<p, Evidence(p[1], p[2])>> : p \in TextPairs }

ExplainOne(request_summary, a) ==
  LET header == <<a.level, a.scope, a.statement>>
      key == <<request_summary, a.statement>>
      ev == IF key \in TextPairs
              THEN (CHOOSE e \in EvidenceTable : e[1] = key)[2]
              ELSE Evidence(request_summary, a.statement)
  IN  [header |-> header, kind |-> ev.kind, evidence |-> ev.evidence]

_build_explanations(request_summary, conflicts) ==
  [i \in 1..Len(conflicts) |-> ExplainOne(request_summary, conflicts[i])]

\* sep.join(explanations): the explanations with the separator between them;
\* the empty string is the empty sequence
RECURSIVE JoinText(_, _)
JoinText(sep, parts) ==
  IF parts = <<>> THEN <<>>
  ELSE IF Len(parts) = 1 THEN <<parts[1]>>
  ELSE <<parts[1], sep>> \o JoinText(sep, Tail(parts))

\* ------------------------------------------------------------------------
\* Decision state machine (app/gate.py)
\* ------------------------------------------------------------------------
AffectValues == {"low", "med", "high", "unknown"}

UserState(arousal, dominance) == [arousal |-> arousal, dominance |-> dominance]

GateDecision(decision, reason, ids, interpretation, suggestion, next_actions) ==
  [decision |-> decision, reason |-> reason, conflicted_anchor_ids |-> ids,
   interpretation |-> interpretation, suggestion |-> suggestion,
   next_actions |-> next_actions]

\* a decision table whose level-3 row is read only for a state mismatch
decide_l3_needs_mismatch(state, conflicted_anchor_ids, max_level_conflict) ==
  IF max_level_conflict >= 3
       /\ state.arousal = "high" /\ state.dominance = "low" THEN
    GateDecision("gate", "state_mismatch_with_l3_anchor",
      conflicted_anchor_ids,
      "This conflicts with a level-3 boundary while your state reads high-arousal / low-control.",
      "Pause, then reframe the intent to align with the boundary.",
      <<"pause", "reframe", "view_conflicts">>)
  ELSE IF max_level_conflict >= 2 THEN
    GateDecision("gate",
      IF state.arousal = "high" /\ state.dominance = "low"
        THEN "state_mismatch_with_l2_anchor" ELSE "l2_anchor_conflict",
      conflicted_anchor_ids,
      "This conflicts with a level-2 policy constraint.",
      "Reframe the request to stay within the boundary, or proceed with acknowledgement.",
      <<"reframe", "proceed_acknowledged", "view_conflicts">>)
  ELSE IF max_level_conflict = 1 THEN
    GateDecision("proceed", "l1_advisory_conflict",
      conflicted_anchor_ids,
      "A low-priority advisory constraint was noted. No block applied.",
      "Proceed, but review the flagged anchor for alignment.",
      <<"proceed", "view_conflicts">>)
  ELSE
    GateDecision("proceed", "no_conflict",
      <<>>,
      "No conflicts detected against active anchors.",
      "Proceed normally.",
      <<"proceed">>)

\* a decision table whose level-2 rows do not offer the acknowledgement
decide_l2_without_acknowledge(state, conflicted_anchor_ids, max_level_conflict) ==
  IF max_level_conflict >= 3 THEN
    IF state.arousal = "high" /\ state.dominance = "low"
      THEN GateDecision("gate", "state_mismatch_with_l3_anchor",
             conflicted_anchor_ids,
             "This conflicts with a level-3 boundary while your state reads high-arousal / low-control.",
             "Pause, then reframe the intent to align with the boundary.",
             <<"pause", "reframe", "view_conflicts">>)
      ELSE GateDecision("gate", "l3_anchor_conflict",
             conflicted_anchor_ids,
             "This conflicts with a level-3 boundary (protected constraint).",
             "Rephrase the request so it stays within the boundary.",
             <<"reframe", "view_conflicts", "cancel">>)
  ELSE IF max_level_conflict = 2 THEN
    IF state.arousal = "high" /\ state.dominance = "low"
      THEN GateDecision("gate", "state_mismatch_with_l2_anchor",
             conflicted_anchor_ids,
             "This conflicts with a level-2 policy while your state reads high-arousal / low-control.",
             "Consider pausing. You can reframe or proceed with acknowledgement.",
             <<"pause", "reframe", "view_conflicts">>)
      ELSE GateDecision("gate", "l2_anchor_conflict",
             conflicted_anchor_ids,
             "This conflicts with a level-2 policy constraint.",
             "Reframe the request to stay within the boundary, or proceed with acknowledgement.",
             <<"reframe", "view_conflicts", "cancel">>)
  ELSE IF max_level_conflict = 1 THEN
    GateDecision("proceed", "l1_advisory_conflict",
      conflicted_anchor_ids,
      "A low-priority advisory constraint was noted. No block applied.",
      "Proceed, but review the flagged anchor for alignment.",
      <<"proceed", "view_conflicts">>)
  ELSE
    GateDecision("proceed", "no_conflict",
      <<>>,
      "No conflicts detected against active anchors.",
      "Proceed normally.",
      <<"proceed">>)

decide(state, conflicted_anchor_ids, max_level_conflict) ==
  IF max_level_conflict >= 3 THEN
    IF state.arousal = "high" /\ state.dominance = "low"
      THEN GateDecision("gate", "state_mismatch_with_l3_anchor",
             conflicted_anchor_ids,
             "This conflicts with a level-3 boundary while your state reads high-arousal / low-control.",
             "Pause, then reframe the intent to align with the boundary.",
             <<"pause", "reframe", "view_conflicts">>)
      ELSE GateDecision("gate", "l3_anchor_conflict",
             conflicted_anchor_ids,
             "This conflicts with a level-3 boundary (protected constraint).",
             "Rephrase the request so it stays within the boundary.",
             <<"reframe", "view_conflicts", "cancel">>)
  ELSE IF max_level_conflict = 2 THEN
    IF state.arousal = "high" /\ state.dominance = "low"
      THEN GateDecision("gate", "state_mismatch_with_l2_anchor",
             conflicted_anchor_ids,
             "This conflicts with a level-2 policy while your state reads high-arousal / low-control.",
             "Consider pausing. You can reframe or proceed with acknowledgement.",
             <<"pause", "reframe", "proceed_acknowledged", "view_conflicts">>)
      ELSE GateDecision("gate", "l2_anchor_conflict",
             conflicted_anchor_ids,
             "This conflicts with a level-2 policy constraint.",
             "Reframe the request to stay within the boundary, or proceed with acknowledgement.",
             <<"reframe", "proceed_acknowledged", "view_conflicts">>)
  ELSE IF max_level_conflict = 1 THEN
    GateDecision("proceed", "l1_advisory_conflict",
      conflicted_anchor_ids,
      "A low-priority advisory constraint was noted. No block applied.",
      "Proceed, but review the flagged anchor for alignment.",
      <<"proceed", "view_conflicts">>)
  ELSE
    GateDecision("proceed", "no_conflict",
      <<>>,
      "No conflicts detected against active anchors.",
      "Proceed normally.",
      <<"proceed">>)

\* _norm_state: the affect value passes through unchanged
_norm_state(val) == val

\* max((a.level for a in conflicts), default=0)
MaxLevel(conflicts) ==
  IF conflicts = <<>> THEN 0
  ELSE CHOOSE m \in { conflicts[i].level : i \in 1..Len(conflicts) } :
         \A i \in 1..Len(conflicts) : conflicts[i].level <= m

IdsOf(as) == [i \in 1..Len(as) |-> as[i].id]

\* ------------------------------------------------------------------------
\* Serialisation helpers
\* ------------------------------------------------------------------------
\* int(part): defined for a non-empty string of digits
IsInt(part) == part # <<>> /\ \A i \in 1..Len(part) : part[i] \in DigitSet

\* s.split(",")
RECURSIVE SplitComma(_, _, _, _)
SplitComma(s, i, cur, acc) ==
  IF i > Len(s) THEN Append(acc, cur)
  ELSE IF s[i] = "," THEN SplitComma(s, i + 1, <<>>, Append(acc, cur))
  ELSE SplitComma(s, i + 1, Append(cur, s[i]), acc)

\* ",".join(str(i) for i in ids)
join_ids(ids) == join(<<",">>, [i \in 1..Len(ids) |-> IntToStr(ids[i])])

parse_id_list(s) ==
  IF s = <<>> THEN <<>>
  ELSE LET parts == SplitComma(s, 1, <<>>, <<>>)
           stripped == [i \in 1..Len(parts) |-> strip(parts[i])]
           good == SelectSeq(stripped, IsInt)
       IN  [i \in 1..Len(good) |-> DigitsValue(good[i], 0)]

\* TruthAnchor.stable_hash: the digest is modelled by the payload it hashes
stable_hash(a) ==
  IntToStr(a.level) \o <<"|">> \o a.scope \o <<"|">>
    \o IntToStr(IF a.active THEN 1 ELSE 0) \o <<"|">> \o a.statement

\* ------------------------------------------------------------------------
\* The semantic matcher (embedding_matcher.py).  sims holds the cosine
\* similarity the external sentence model gives the request against each
\* anchor's statement, in hundredths, by anchor id.
\* ------------------------------------------------------------------------
\* embedding_threshold = 0.50
EMBEDDING_THRESHOLD == 50

Sim(sims, id) == IF id \in DOMAIN sims THEN sims[id] ELSE 0

\* out.sort(key=lambda x: x[1], reverse=True): stable, by descending score
RECURSIVE InsertByScore(_, _)
InsertByScore(out, p) ==
  IF out = <<>> THEN <<p>>
  ELSE IF p[2] > Head(out)[2] THEN <<p>> \o out
  ELSE <<Head(out)>> \o InsertByScore(Tail(out), p)

RECURSIVE SortByScore(_)
SortByScore(out) ==
  IF out = <<>> THEN <<>>
  ELSE InsertByScore(SortByScore(SubSeq(out, 1, Len(out) - 1)), out[Len(out)])

\* a scorer that leaves its matches in the order of the anchors
find_conflicts_embedding_unsorted(request_summary, anchors, threshold, sims) ==
  SelectSeq([i \in 1..Len(anchors) |->
               <<anchors[i], Sim(sims, anchors[i].id)>>],
            LAMBDA p : p[2] >= threshold)

find_conflicts_embedding(request_summary, anchors, threshold, sims) ==
  IF anchors = <<>> THEN <<>>
  ELSE SortByScore(SelectSeq([i \in 1..Len(anchors) |->
                                <<anchors[i], Sim(sims, anchors[i].id)>>],
                             LAMBDA p : p[2] >= threshold))

\* ------------------------------------------------------------------------
\* Matcher selection (_detect_conflicts)
\* ------------------------------------------------------------------------
\* the pair _detect_conflicts returns, built from the conflicts found
DetectResult(conflicts, anchors, matcher_requested, fallback_used, matched_scores) ==
  [conflicts |-> conflicts,
   match_debug |->
     [evaluated_anchor_count |-> Len(anchors),
      conflicted_ids |-> IdsOf(conflicts),
      matcher_requested |-> matcher_requested,
      matcher_used |-> IF fallback_used THEN "naive_fallback"
                                        ELSE matcher_requested,
      fallback_used |-> fallback_used,
      fallback_reason |-> IF fallback_used THEN "embedding_no_matches"
                                           ELSE "None",
      matched_scores |-> matched_scores]]

\* [{"anchor_id": a.id, "score": float(s)} for (a, s) in scored]
MatchedScores(scored) ==
  [i \in 1..Len(scored) |->
     [anchor_id |-> scored[i][1].id, score |-> scored[i][2]]]

\* a selection that takes an empty scorer result as it is
_detect_conflicts_no_fallback(request_text, anchors, matcher_requested, sims) ==
  CHOOSE r \in
    { DetectResult(conflicts, anchors, matcher_requested, FALSE, scores) :
        <<conflicts, scores>> \in
          { <<IF matcher_requested = "embedding"
                THEN [i \in 1..Len(scored) |-> scored[i][1]]
                ELSE naive_conflicts(request_text, anchors),
              MatchedScores(scored)>> :
              scored \in
                { IF matcher_requested = "embedding"
                    THEN find_conflicts_embedding(request_text, anchors,
                                                  EMBEDDING_THRESHOLD, sims)
                    ELSE <<>> } } } : TRUE

_detect_conflicts(request_text, anchors, matcher_requested, sims) ==
  CHOOSE r \in
    { DetectResult(conflicts, anchors, matcher_requested, fallback_used,
                   scores) :
        <<conflicts, fallback_used, scores>> \in
          { <<IF scored # <<>>
                THEN [i \in 1..Len(scored) |-> scored[i][1]]
                ELSE naive_conflicts(request_text, anchors),
              matcher_requested = "embedding" /\ scored = <<>>,
              MatchedScores(scored)>> :
              scored \in
                { IF matcher_requested = "embedding"
                    THEN find_conflicts_embedding(request_text, anchors,
                                                  EMBEDDING_THRESHOLD, sims)
                    ELSE <<>> } } } : TRUE

\* ------------------------------------------------------------------------
\* Input pools and bounds
\* ------------------------------------------------------------------------
MaxAnchors == 2
MaxProfiles == 2
MaxLogs == 2

\* the affect states a caller reports, as <<arousal, dominance>>
AffectPool == { <<"unknown", "unknown">>, <<"high", "low">> }

\* Optional[x]: <<>> is None, <<v>> is the value v
None == <<>>
Some(v) == <<v>>
OrElse(opt, dflt) == IF opt = None THEN dflt ELSE opt[1]

\* ------------------------------------------------------------------------
\* The store and the last response
\* ------------------------------------------------------------------------
VARIABLES
  anchors,          \* truth_anchors, indexed by id
  profiles,         \* policy_profiles, indexed by id
  profile_anchors,  \* policy_profile_anchors rows of each profile
  gate_logs,        \* gate_logs, indexed by id
  traces,           \* decision_traces with their decision_trace_anchors
  sw_matcher,       \* the SW_MATCHER environment switch
  response,         \* the response of the last call
  session,          \* the database session of an evaluate in flight
  mcp               \* the tool call of the MCP wrapper in flight

vars == <<anchors, profiles, profile_anchors, gate_logs, traces, sw_matcher,
          response, session, mcp>>

store == <<anchors, profiles, profile_anchors, gate_logs, traces, sw_matcher>>

Response(op, status, in, out) ==
  [op |-> op, status |-> status, in |-> in, out |-> out]

NoOut == [detail |-> "error"]

EmptyStore ==
  /\ anchors = <<>>
  /\ profiles = <<>>
  /\ profile_anchors = <<>>
  /\ gate_logs = <<>>
  /\ traces = <<>>
  /\ sw_matcher = "naive"
  /\ response = Response("start", 200, [none |-> TRUE], NoOut)

\* a session with nothing loaded and nothing pending
NoSession ==
  [pc |-> "idle", request_summary |-> <<>>, arousal |-> "unknown",
   dominance |-> "unknown", active_anchors |-> <<>>, log |-> <<>>,
   trace |-> <<>>]

\* the MCP wrapper with no tool call in flight
NoGate == [kind |-> "none", body |-> [detail |-> "none"]]

NoCall ==
  [pc |-> "idle", name |-> <<>>, arguments |-> <<>>, request_summary |-> <<>>,
   gate_result |-> NoGate, executed |-> FALSE, text |-> "none"]

Init == EmptyStore /\ session = NoSession /\ mcp = NoCall

\* ------------------------------------------------------------------------
\* Anchors (api/anchors.py)
\* ------------------------------------------------------------------------
create_anchor(payload) ==
  /\ Len(anchors) < MaxAnchors
  /\ LET anchor == [id |-> Len(anchors) + 1, level |-> payload.level,
                    statement |-> payload.statement, scope |-> payload.scope,
                    active |-> TRUE]
     IN  /\ anchors' = Append(anchors, anchor)
         /\ response' = Response("create_anchor", 200, [none |-> TRUE],
                                 anchor)
  /\ UNCHANGED <<profiles, profile_anchors, gate_logs, traces, sw_matcher>>

\* an archive that flips the flag
archive_anchor_toggle(anchor_id) ==
  IF anchor_id \notin DOMAIN anchors
    THEN /\ response' = Response("archive_anchor", 404,
                                 [anchor_id |-> anchor_id], NoOut)
         /\ UNCHANGED store
    ELSE /\ anchors' = [anchors EXCEPT ![anchor_id].active = ~anchors[anchor_id].active]
         /\ response' = Response("archive_anchor", 200,
                                 [anchor_id |-> anchor_id], anchors'[anchor_id])
         /\ UNCHANGED <<profiles, profile_anchors, gate_logs, traces,
                        sw_matcher>>

archive_anchor(anchor_id) ==
  IF anchor_id \notin DOMAIN anchors
    THEN /\ response' = Response("archive_anchor", 404,
                                 [anchor_id |-> anchor_id], NoOut)
         /\ UNCHANGED store
    ELSE /\ anchors' = [anchors EXCEPT ![anchor_id].active = FALSE]
         /\ response' = Response("archive_anchor", 200,
                                 [anchor_id |-> anchor_id], anchors'[anchor_id])
         /\ UNCHANGED <<profiles, profile_anchors, gate_logs, traces,
                        sw_matcher>>

\* ------------------------------------------------------------------------
\* Profiles (api/profiles.py)
\* ------------------------------------------------------------------------
create_profile(is_default) ==
  /\ Len(profiles) < MaxProfiles
  /\ LET profile == [id |-> Len(profiles) + 1, active |-> TRUE,
                     is_default |-> is_default]
     IN  /\ profiles' = Append(profiles, profile)
         /\ profile_anchors' = Append(profile_anchors, <<>>)
         /\ response' = Response("create_profile", 200,
                                 [is_default |-> is_default], profile)
  /\ UNCHANGED <<anchors, gate_logs, traces, sw_matcher>>

HasDuplicates(ids) ==
  \E i, j \in 1..Len(ids) : i # j /\ ids[i] = ids[j]

\* an assignment that clears the profile before it looks up the anchor ids
assign_anchors_clear_first(profile_id, anchor_ids) ==
  LET in == [profile_id |-> profile_id]
  IN  IF profile_id \notin DOMAIN profiles
        THEN /\ response' = Response("assign_anchors", 404, in, NoOut)
             /\ UNCHANGED store
      ELSE IF \E i \in 1..Len(anchor_ids) : anchor_ids[i] \notin DOMAIN anchors
        THEN /\ response' = Response("assign_anchors", 404, in, NoOut)
             /\ profile_anchors' = [profile_anchors EXCEPT ![profile_id] = <<>>]
             /\ UNCHANGED <<anchors, profiles, gate_logs, traces, sw_matcher>>
      ELSE IF HasDuplicates(anchor_ids)
        THEN /\ response' = Response("assign_anchors", 500, in, NoOut)
             /\ UNCHANGED store
      ELSE /\ profile_anchors' =
                [profile_anchors EXCEPT ![profile_id] =
                   [i \in 1..Len(anchor_ids) |->
                      [anchor_id |-> anchor_ids[i], priority |-> i - 1,
                       enabled |-> TRUE]]]
           /\ response' = Response("assign_anchors", 200, in,
                                   [profile_id |-> profile_id,
                                    anchor_ids |-> anchor_ids])
           /\ UNCHANGED <<anchors, profiles, gate_logs, traces, sw_matcher>>

assign_anchors(profile_id, anchor_ids) ==
  LET in == [profile_id |-> profile_id]
  IN  IF profile_id \notin DOMAIN profiles
        THEN /\ response' = Response("assign_anchors", 404, in, NoOut)
             /\ UNCHANGED store
      ELSE IF \E i \in 1..Len(anchor_ids) : anchor_ids[i] \notin DOMAIN anchors
        THEN /\ response' = Response("assign_anchors", 404, in, NoOut)
             /\ UNCHANGED store
      ELSE IF HasDuplicates(anchor_ids)
        \* uq_profile_anchor rejects the commit; the transaction rolls back
        THEN /\ response' = Response("assign_anchors", 500, in, NoOut)
             /\ UNCHANGED store
      ELSE /\ profile_anchors' =
                [profile_anchors EXCEPT ![profile_id] =
                   [i \in 1..Len(anchor_ids) |->
                      [anchor_id |-> anchor_ids[i], priority |-> i - 1,
                       enabled |-> TRUE]]]
           /\ response' = Response("assign_anchors", 200, in,
                                   [profile_id |-> profile_id,
                                    anchor_ids |-> anchor_ids])
           /\ UNCHANGED <<anchors, profiles, gate_logs, traces, sw_matcher>>

\* ------------------------------------------------------------------------
\* Gate: evaluate (api/gate.py)
\* ------------------------------------------------------------------------
\* a profile lookup that keeps archived anchors of the profile
CandidateAnchors_profile_archived(profile_id) ==
  IF profile_id # None
    THEN LET rows == SelectSeq(profile_anchors[profile_id[1]],
                               LAMBDA r : r.enabled)
             anchor_ids == { rows[i].anchor_id : i \in 1..Len(rows) }
         IN  SelectSeq(anchors, LAMBDA a : a.id \in anchor_ids)
    ELSE SelectSeq(anchors, LAMBDA a : a.active)

\* an anchor set that ignores the selected profile
CandidateAnchors_global(profile_id) == SelectSeq(anchors, LAMBDA a : a.active)

\* step 1 of evaluate: the anchor set evaluated against.  Both queries scan
\* truth_anchors by primary key, so the anchors come in id order.
CandidateAnchors(profile_id) ==
  IF profile_id # None
    THEN LET rows == SelectSeq(profile_anchors[profile_id[1]],
                               LAMBDA r : r.enabled)
             anchor_ids == { rows[i].anchor_id : i \in 1..Len(rows) }
         IN  SelectSeq(anchors, LAMBDA a : a.id \in anchor_ids /\ a.active)
    ELSE SelectSeq(anchors, LAMBDA a : a.active)

\* getattr(decision, "explanation", "") or getattr(decision, "explain", "") or ""
TraceExplanation(decision) ==
  IF "explanation" \in DOMAIN decision /\ decision.explanation # <<>>
    THEN decision.explanation
  ELSE IF "explain" \in DOMAIN decision /\ decision.explain # <<>>
    THEN decision.explain
  ELSE <<>>

GateLog(id, request_summary, arousal, dominance, decision, reason, conflicted_anchor_ids, user_choice) ==
  [id |-> id, request_summary |-> request_summary, arousal |-> arousal,
   dominance |-> dominance, decision |-> decision, reason |-> reason,
   conflicted_anchor_ids |-> conflicted_anchor_ids,
   user_choice |-> user_choice]

\* a snapshot loop that marks every row as matched
DecisionTraceAnchor_all_matched(trace_id, a, conflicted_set) ==
  [trace_id |-> trace_id, anchor_id |-> a.id, anchor_hash |-> stable_hash(a),
   level_snapshot |-> a.level, scope_snapshot |-> a.scope,
   active_snapshot |-> a.active, statement_snapshot |-> a.statement,
   matched |-> TRUE, match_note |-> "conflict"]

\* step 6 of evaluate: one snapshot row per anchor considered
DecisionTraceAnchor(trace_id, a, conflicted_set) ==
  [trace_id |-> trace_id, anchor_id |-> a.id, anchor_hash |-> stable_hash(a),
   level_snapshot |-> a.level, scope_snapshot |-> a.scope,
   active_snapshot |-> a.active, statement_snapshot |-> a.statement,
   matched |-> a.id \in conflicted_set,
   match_note |-> IF a.id \in conflicted_set THEN "conflict" ELSE ""]

\* step 5 of evaluate: the DecisionTrace row with its snapshot rows
DecisionTrace(trace_id, request_summary, arousal, dominance, decision, detected, active_anchors) ==
  [id |-> trace_id,
   policy_profile_id |-> None,
   request_text |-> request_summary,
   request_normalized |-> NormOf(request_summary),
   arousal |-> arousal,
   dominance |-> dominance,
   decision |-> decision.decision,
   reason |-> decision.reason,
   explanation |-> TraceExplanation(decision),
   match_debug |->
     [evaluated_anchor_count |-> detected.match_debug.evaluated_anchor_count,
      conflicted_ids |-> IdsOf(detected.conflicts),
      matcher_requested |-> detected.match_debug.matcher_requested,
      matcher_used |-> detected.match_debug.matcher_used,
      fallback_used |-> detected.match_debug.fallback_used,
      fallback_reason |-> detected.match_debug.fallback_reason,
      max_level_conflict |-> MaxLevel(detected.conflicts)],
   anchors |->
     [i \in 1..Len(active_anchors) |->
        DecisionTraceAnchor(trace_id, active_anchors[i],
                            Range(IdsOf(detected.conflicts)))]]

\* GateEvaluateOut; the extended fields are present only when gated
GateEvaluateOut(decision, conflicted_ids, explanations_list, log_id, trace_id) ==
  [decision |-> decision.decision,
   reason |-> decision.reason,
   interpretation |->
     IF decision.decision # "proceed" THEN Some(decision.interpretation)
                                      ELSE None,
   suggestion |->
     IF decision.decision # "proceed" THEN Some(decision.suggestion)
                                      ELSE None,
   explanations |->
     IF decision.decision # "proceed" THEN Some(explanations_list) ELSE None,
   next_actions |->
     IF decision.decision # "proceed" THEN Some(decision.next_actions)
                                      ELSE None,
   conflicted_anchor_ids |-> conflicted_ids,
   log_id |-> log_id,
   trace_id |-> trace_id]

evaluate(request_summary, arousal, dominance, profile_id, sims) ==
  IF profile_id # None /\ profile_id[1] \notin DOMAIN profiles
    THEN /\ response' = Response("evaluate", 404,
                                 [profile_id |-> profile_id], NoOut)
         /\ UNCHANGED store
    ELSE
      \E active_anchors \in { CandidateAnchors(profile_id) } :
      \E detected \in { _detect_conflicts(request_summary, active_anchors,
                                          sw_matcher, sims) } :
      \E explanations_list \in
           { _build_explanations(request_summary, detected.conflicts) } :
      \E conflicted_ids \in { IdsOf(detected.conflicts) } :
      \E decision \in { decide(UserState(arousal, dominance), conflicted_ids,
                               MaxLevel(detected.conflicts)) } :
        /\ Len(gate_logs) < MaxLogs
        /\ gate_logs' =
             Append(gate_logs,
                    GateLog(Len(gate_logs) + 1, request_summary, arousal,
                            dominance, decision.decision, decision.reason,
                            join_ids(conflicted_ids), <<>>))
        /\ traces' =
             Append(traces,
                    DecisionTrace(Len(traces) + 1, request_summary, arousal,
                                  dominance, decision, detected,
                                  active_anchors))
        /\ response' =
             Response("evaluate", 200, [profile_id |-> profile_id],
                      GateEvaluateOut(decision, conflicted_ids,
                                      explanations_list,
                                      Len(gate_logs) + 1, Len(traces) + 1))
        /\ UNCHANGED <<anchors, profiles, profile_anchors, sw_matcher>>

\* ------------------------------------------------------------------------
\* evaluate step by step, in its own database session (SessionLocal with
\* autoflush off).  The objects loaded by the first query keep the values
\* they were loaded with: nothing expires them before the commit.  Flushed
\* rows are pending in the session until the commit; closing the session
\* without a commit rolls them back.
\* ------------------------------------------------------------------------
\* step 1: load the anchor set
begin_evaluate(request_summary, arousal, dominance) ==
  /\ session.pc = "idle"
  /\ Len(gate_logs) < MaxLogs
  /\ session' = [NoSession EXCEPT !.pc = "loaded",
                                  !.request_summary = request_summary,
                                  !.arousal = arousal,
                                  !.dominance = dominance,
                                  !.active_anchors = CandidateAnchors(None)]
  /\ UNCHANGED <<store, response, mcp>>

\* steps 2 and 3 over the loaded anchors
SessionDetected(s) ==
  _detect_conflicts(s.request_summary, s.active_anchors, sw_matcher, <<>>)

SessionDecision(s, detected) ==
  decide(UserState(s.arousal, s.dominance), IdsOf(detected.conflicts),
         MaxLevel(detected.conflicts))

\* step 4: add the log row and flush
flush_log ==
  /\ session.pc = "loaded"
  /\ Len(gate_logs) < MaxLogs
  /\ \E detected \in { SessionDetected(session) } :
     \E decision \in { SessionDecision(session, detected) } :
       session' =
         [session EXCEPT
            !.pc = "log_flushed",
            !.log = <<GateLog(Len(gate_logs) + 1, session.request_summary,
                              session.arousal, session.dominance,
                              decision.decision, decision.reason,
                              join_ids(IdsOf(detected.conflicts)), <<>>)>>]
  /\ UNCHANGED <<store, response, mcp>>

\* step 5: add the trace row and flush
flush_trace ==
  /\ session.pc = "log_flushed"
  /\ \E detected \in { SessionDetected(session) } :
     \E decision \in { SessionDecision(session, detected) } :
       session' =
         [session EXCEPT
            !.pc = "trace_flushed",
            !.trace = <<DecisionTrace(Len(traces) + 1,
                                      session.request_summary, session.arousal,
                                      session.dominance, decision, detected,
                                      <<>>)>>]
  /\ UNCHANGED <<store, response, mcp>>

\* a snapshot loop that reads the anchors again from the store
LoadedAnchors_reread(s) ==
  [i \in 1..Len(s.active_anchors) |-> anchors[s.active_anchors[i].id]]

\* the objects the snapshot loop iterates over: those loaded in step 1
LoadedAnchors(s) == s.active_anchors

\* step 6: add one snapshot row for each anchor considered
snapshot_anchors ==
  /\ session.pc = "trace_flushed"
  /\ \E detected \in { SessionDetected(session) } :
     \E loaded \in { LoadedAnchors(session) } :
       session' =
         [session EXCEPT
            !.pc = "snapshotted",
            !.trace[1].anchors =
               [i \in 1..Len(loaded) |->
                  DecisionTraceAnchor(session.trace[1].id, loaded[i],
                                      Range(IdsOf(detected.conflicts)))]]
  /\ UNCHANGED <<store, response, mcp>>

\* step 7: commit once and answer
commit_evaluate ==
  /\ session.pc = "snapshotted"
  /\ \E detected \in { SessionDetected(session) } :
     \E decision \in { SessionDecision(session, detected) } :
     \E explanations_list \in
          { _build_explanations(session.request_summary, detected.conflicts) } :
       response' =
         Response("evaluate", 200, [profile_id |-> None],
                  GateEvaluateOut(decision, IdsOf(detected.conflicts),
                                  explanations_list, session.log[1].id,
                                  session.trace[1].id))
  /\ gate_logs' = gate_logs \o session.log
  /\ traces' = traces \o session.trace
  /\ session' = NoSession
  /\ UNCHANGED <<anchors, profiles, profile_anchors, sw_matcher, mcp>>

\* a session closed with its flushed rows kept
close_session_keeps_flushed(s) ==
  [gate_logs |-> gate_logs \o s.log, traces |-> traces \o s.trace]

\* the audit tables after the session is closed without a commit
close_session(s) == [gate_logs |-> gate_logs, traces |-> traces]

\* the handler fails or the process dies before the commit
abort_evaluate ==
  /\ session.pc \in {"loaded", "log_flushed", "trace_flushed", "snapshotted"}
  /\ gate_logs' = close_session(session).gate_logs
  /\ traces' = close_session(session).traces
  /\ response' = Response("evaluate", 500, [pc |-> session.pc], NoOut)
  /\ session' = NoSession
  /\ UNCHANGED <<anchors, profiles, profile_anchors, sw_matcher, mcp>>

\* ------------------------------------------------------------------------
\* Gate: reframe
\* ------------------------------------------------------------------------
GateReframeOut(parent, reframed, decision, conflicted_ids, explanations_list, log_id) ==
  [parent_log_id |-> parent.id,
   reframed_request_summary |-> reframed,
   decision |-> decision.decision,
   reason |-> decision.reason,
   interpretation |-> decision.interpretation,
   suggestion |-> decision.suggestion,
   explanations |->
     IF decision.decision # "proceed" THEN Some(explanations_list) ELSE None,
   next_actions |-> decision.next_actions,
   conflicted_anchor_ids |-> conflicted_ids,
   log_id |-> log_id]

\* a reframe that keeps the affect state of the parent row
reframe_keeps_parent_state(log_id, new_intent, arousal_in, dominance_in, sims) ==
  IF log_id \notin DOMAIN gate_logs
    THEN /\ response' = Response("reframe", 404, [log_id |-> log_id], NoOut)
         /\ UNCHANGED store
    ELSE
      \E parent \in { gate_logs[log_id] } :
      \E reframed \in { strip(new_intent) } :
      \E active_anchors \in { SelectSeq(anchors, LAMBDA a : a.active) } :
      \E conflicts \in { _detect_conflicts(reframed, active_anchors,
                                           sw_matcher, sims).conflicts } :
      \E conflicted_ids \in { IdsOf(conflicts) } :
      \E decision \in { decide(UserState(parent.arousal, parent.dominance),
                               conflicted_ids, MaxLevel(conflicts)) } :
        /\ Len(gate_logs) < MaxLogs
        /\ gate_logs' =
             Append(gate_logs,
                    GateLog(Len(gate_logs) + 1, reframed, parent.arousal,
                            parent.dominance, decision.decision,
                            decision.reason, join_ids(conflicted_ids),
                            <<"reframe_from:", IntToStr(parent.id)>>))
        /\ response' =
             Response("reframe", 200, [log_id |-> log_id],
                      GateReframeOut(parent, reframed, decision,
                                     conflicted_ids,
                                     _build_explanations(reframed, conflicts),
                                     Len(gate_logs) + 1))
        /\ UNCHANGED <<anchors, profiles, profile_anchors, traces, sw_matcher>>

reframe(log_id, new_intent, arousal_in, dominance_in, sims) ==
  IF log_id \notin DOMAIN gate_logs
    THEN /\ response' = Response("reframe", 404, [log_id |-> log_id], NoOut)
         /\ UNCHANGED store
    ELSE
      \E parent \in { gate_logs[log_id] } :
      \E reframed \in { strip(new_intent) } :
      \E arousal \in { _norm_state(OrElse(arousal_in, parent.arousal)) } :
      \E dominance \in { _norm_state(OrElse(dominance_in, parent.dominance)) } :
      \E active_anchors \in { SelectSeq(anchors, LAMBDA a : a.active) } :
      \E conflicts \in { _detect_conflicts(reframed, active_anchors,
                                           sw_matcher, sims).conflicts } :
      \E conflicted_ids \in { IdsOf(conflicts) } :
      \E decision \in { decide(UserState(arousal, dominance), conflicted_ids,
                               MaxLevel(conflicts)) } :
        /\ Len(gate_logs) < MaxLogs
        /\ gate_logs' =
             Append(gate_logs,
                    GateLog(Len(gate_logs) + 1, reframed, arousal, dominance,
                            decision.decision, decision.reason,
                            join_ids(conflicted_ids),
                            <<"reframe_from:", IntToStr(parent.id)>>))
        /\ response' =
             Response("reframe", 200, [log_id |-> log_id],
                      GateReframeOut(parent, reframed, decision,
                                     conflicted_ids,
                                     _build_explanations(reframed, conflicts),
                                     Len(gate_logs) + 1))
        /\ UNCHANGED <<anchors, profiles, profile_anchors, traces, sw_matcher>>

\* ------------------------------------------------------------------------
\* Gate: acknowledge
\* ------------------------------------------------------------------------
ReasonText(reason) ==
  CASE reason = "state_mismatch_with_l3_anchor" ->
         <<"s","t","a","t","e","_","m","i","s","m","a","t","c","h","_",
           "w","i","t","h","_","l","3","_","a","n","c","h","o","r">>
    [] reason = "l3_anchor_conflict" ->
         <<"l","3","_","a","n","c","h","o","r","_",
           "c","o","n","f","l","i","c","t">>
    [] reason = "state_mismatch_with_l2_anchor" ->
         <<"s","t","a","t","e","_","m","i","s","m","a","t","c","h","_",
           "w","i","t","h","_","l","2","_","a","n","c","h","o","r">>
    [] reason = "l2_anchor_conflict" ->
         <<"l","2","_","a","n","c","h","o","r","_",
           "c","o","n","f","l","i","c","t">>
    [] reason = "l1_advisory_conflict" ->
         <<"l","1","_","a","d","v","i","s","o","r","y","_",
           "c","o","n","f","l","i","c","t">>
    [] reason = "no_conflict" ->
         <<"n","o","_","c","o","n","f","l","i","c","t">>
    [] reason = "proceed_acknowledged" ->
         <<"p","r","o","c","e","e","d","_",
           "a","c","k","n","o","w","l","e","d","g","e","d">>

\* a precondition that accepts every gate, whatever its level
AckAllowed_any_gate(parent) == parent.decision = "gate"

\* a precondition that accepts every row that lists a conflict
AckAllowed_any_conflict(parent) == parent.conflicted_anchor_ids # <<>>

\* a precondition that accepts the plain level-2 conflict alone
AckAllowed_l2_conflict_only(parent) == parent.reason = "l2_anchor_conflict"

\* not (parent.decision != "gate" or "l2" not in parent.reason)
AckAllowed(parent) ==
  ~(parent.decision # "gate" \/ ~contains(ReasonText(parent.reason), <<"l","2">>))

\* an acknowledgement row that keeps the affect state of the parent
AckLog_parent_affect(id, parent, arousal, dominance) ==
  GateLog(id, parent.request_summary, parent.arousal, parent.dominance,
          "proceed", "proceed_acknowledged", parent.conflicted_anchor_ids,
          <<"proceed_acknowledged:", IntToStr(parent.id)>>)

\* an acknowledgement row annotated with its own id
AckLog_annotates_self(id, parent, arousal, dominance) ==
  GateLog(id, parent.request_summary, arousal, dominance,
          "proceed", "proceed_acknowledged", parent.conflicted_anchor_ids,
          <<"proceed_acknowledged:", IntToStr(id)>>)

AckLog(id, parent, arousal, dominance) ==
  GateLog(id, parent.request_summary, arousal, dominance,
          "proceed", "proceed_acknowledged", parent.conflicted_anchor_ids,
          <<"proceed_acknowledged:", IntToStr(parent.id)>>)

\* an acknowledgement that annotates the parent row in place
acknowledge_marks_parent(log_id, arousal_in, dominance_in) ==
  LET in == [log_id |-> log_id]
  IN  IF log_id \notin DOMAIN gate_logs
        THEN /\ response' = Response("acknowledge", 404, in, NoOut)
             /\ UNCHANGED store
      ELSE IF ~AckAllowed(gate_logs[log_id])
        THEN /\ response' = Response("acknowledge", 422, in, NoOut)
             /\ UNCHANGED store
      ELSE
        /\ gate_logs' =
             [gate_logs EXCEPT ![log_id].decision = "proceed",
                               ![log_id].reason = "proceed_acknowledged"]
        /\ response' = Response("acknowledge", 200, in,
             [parent_log_id |-> log_id,
              decision |-> "proceed",
              reason |-> "proceed_acknowledged",
              next_actions |-> <<"proceed">>,
              conflicted_anchor_ids |->
                parse_id_list(gate_logs[log_id].conflicted_anchor_ids),
              log_id |-> log_id])
        /\ UNCHANGED <<anchors, profiles, profile_anchors, traces,
                       sw_matcher>>

acknowledge(log_id, arousal_in, dominance_in) ==
  LET in == [log_id |-> log_id]
  IN  IF log_id \notin DOMAIN gate_logs
        THEN /\ response' = Response("acknowledge", 404, in, NoOut)
             /\ UNCHANGED store
      ELSE IF ~AckAllowed(gate_logs[log_id])
        THEN /\ response' = Response("acknowledge", 422, in, NoOut)
             /\ UNCHANGED store
      ELSE
        LET parent == gate_logs[log_id]
            arousal == OrElse(arousal_in, parent.arousal)
            dominance == OrElse(dominance_in, parent.dominance)
            conflicted_ids == parse_id_list(parent.conflicted_anchor_ids)
            log == AckLog(Len(gate_logs) + 1, parent, arousal, dominance)
        IN  /\ Len(gate_logs) < MaxLogs
            /\ gate_logs' = Append(gate_logs, log)
            /\ response' = Response("acknowledge", 200, in,
                 [parent_log_id |-> parent.id,
                  decision |-> "proceed",
                  reason |-> "proceed_acknowledged",
                  next_actions |-> <<"proceed">>,
                  conflicted_anchor_ids |-> conflicted_ids,
                  log_id |-> log.id])
            /\ UNCHANGED <<anchors, profiles, profile_anchors, traces,
                           sw_matcher>>

\* ------------------------------------------------------------------------
\* Gate: replay
\* ------------------------------------------------------------------------
\* relationship DecisionTrace.anchors, order_by anchor_id
RECURSIVE InsertByAnchorId(_, _)
InsertByAnchorId(rows, r) ==
  IF rows = <<>> THEN <<r>>
  ELSE IF r.anchor_id < Head(rows).anchor_id THEN <<r>> \o rows
  ELSE <<Head(rows)>> \o InsertByAnchorId(Tail(rows), r)

RECURSIVE OrderByAnchorId(_)
OrderByAnchorId(rows) ==
  IF rows = <<>> THEN <<>>
  ELSE InsertByAnchorId(OrderByAnchorId(Tail(rows)), Head(rows))

\* str(bool)
BoolToStr(b) == IF b THEN <<"T","r","u","e">> ELSE <<"F","a","l","s","e">>

Drift(kind, anchor_id, before, after) ==
  [kind |-> kind, anchor_id |-> anchor_id, before |-> before, after |-> after]

\* a drift check that compares the hashes only
DriftOfRow_hash_only(r) ==
  IF r.anchor_id \notin DOMAIN anchors
    THEN <<Drift("missing (deleted)", r.anchor_id, <<>>, <<>>)>>
  ELSE IF stable_hash(anchors[r.anchor_id]) # r.anchor_hash
    THEN <<Drift("changed", r.anchor_id, r.anchor_hash,
                 stable_hash(anchors[r.anchor_id]))>>
  ELSE <<>>

\* the drift entries of one snapshot row r against the current anchors
DriftOfRow(r) ==
  IF r.anchor_id \notin DOMAIN anchors
    THEN <<Drift("missing (deleted)", r.anchor_id, <<>>, <<>>)>>
    ELSE
      LET a == anchors[r.anchor_id]
          now_hash == stable_hash(a)
      IN  (IF now_hash # r.anchor_hash
             THEN <<Drift("changed", r.anchor_id, r.anchor_hash, now_hash)>>
             ELSE <<>>)
          \o
          (IF a.active # r.active_snapshot
             THEN <<Drift("active flag changed", r.anchor_id,
                          BoolToStr(r.active_snapshot), BoolToStr(a.active))>>
             ELSE <<>>)
          \o
          (IF a.level # r.level_snapshot
             THEN <<Drift("level changed", r.anchor_id,
                          IntToStr(r.level_snapshot), IntToStr(a.level))>>
             ELSE <<>>)
          \o
          (IF a.scope # r.scope_snapshot
             THEN <<Drift("scope changed", r.anchor_id,
                          r.scope_snapshot, a.scope)>>
             ELSE <<>>)

RECURSIVE DriftOfRows(_)
DriftOfRows(rows) ==
  IF rows = <<>> THEN <<>>
  ELSE DriftOfRow(Head(rows)) \o DriftOfRows(Tail(rows))

\* a re-run over every anchor that is active now
AnchorsOrderedNow_all_active(anchor_ids) ==
  SelectSeq(anchors, LAMBDA a : a.active)

\* the current anchors of the snapshot ids, in the snapshot's order
AnchorsOrderedNow(anchor_ids) ==
  LET present == SelectSeq(anchor_ids, LAMBDA i : i \in DOMAIN anchors)
  IN  [k \in 1..Len(present) |-> anchors[present[k]]]

\* a new-anchor entry that counts every active anchor
NewAnchorDrift_counts_all(anchor_ids) ==
  LET all_active_ids == { anchors[j].id : j \in { k \in DOMAIN anchors :
                                                   anchors[k].active } }
  IN  IF all_active_ids # {}
        THEN <<Drift("new active anchors added since trace (not replayed)",
                     0, <<>>, IntToStr(Cardinality(all_active_ids)))>>
        ELSE <<>>

\* the drift entry for active anchors that are not in the snapshot
NewAnchorDrift(anchor_ids) ==
  LET all_active_ids == { anchors[j].id : j \in { k \in DOMAIN anchors :
                                                   anchors[k].active } }
      new_ids == all_active_ids \ Range(anchor_ids)
  IN  IF new_ids # {}
        THEN <<Drift("new active anchors added since trace (not replayed)",
                     0, <<>>, IntToStr(Cardinality(new_ids)))>>
        ELSE <<>>

\* ReplayOut
ReplayOut(trace, result, explanation_now, drift) ==
  [trace_id |-> trace.id,
   same_decision |-> result.decision = trace.decision,
   same_reason |-> result.reason = trace.reason,
   same_explanation |-> explanation_now = trace.explanation,
   anchor_drift |-> drift,
   decision_before |-> trace.decision,
   decision_now |-> result.decision,
   reason_before |-> trace.reason,
   reason_now |-> result.reason,
   explanation |-> explanation_now,
   match_debug |-> trace.match_debug]

\* the re-run of the matcher and of decide for a trace, over the current
\* anchors of its snapshot ids
ReplayOf(trace, original_rows, anchor_ids, conflicts) ==
  ReplayOut(trace,
            decide(UserState(_norm_state(trace.arousal),
                             _norm_state(trace.dominance)),
                   IdsOf(conflicts), MaxLevel(conflicts)),
            JoinText(" | ", _build_explanations(trace.request_text, conflicts)),
            DriftOfRows(original_rows) \o NewAnchorDrift(anchor_ids))

\* the report replay returns for an existing trace in the current store
ReplayReport(trace_id, sims) ==
  CHOOSE report \in
    { ReplayOf(trace, original_rows, anchor_ids, conflicts) :
        <<trace, original_rows, anchor_ids, conflicts>> \in
          { <<tr, rows, ids,
              _detect_conflicts(tr.request_text, AnchorsOrderedNow(ids),
                                sw_matcher, sims).conflicts>> :
              <<tr, rows, ids>> \in
                { <<t, r, [i \in 1..Len(r) |-> r[i].anchor_id]>> :
                    <<t, r>> \in
                      { <<t0, OrderByAnchorId(t0.anchors)>> :
                          t0 \in { traces[trace_id] } } } } } :
    TRUE

replay(trace_id, sims) ==
  /\ response' =
       IF trace_id \notin DOMAIN traces
         THEN Response("replay", 404, [trace_id |-> trace_id], NoOut)
         ELSE Response("replay", 200, [trace_id |-> trace_id],
                       ReplayReport(trace_id, sims))
  /\ UNCHANGED store

\* ------------------------------------------------------------------------
\* Next-state relations
\* ------------------------------------------------------------------------
\* the optional affect overrides of reframe and acknowledge
OverridePool == { <<None, None>>, <<Some("high"), Some("low")>> }

\* the ids a caller may name: the existing ones and an unknown one
AnchorIdInputs == 1..(Len(anchors) + 1)
ProfileIdInputs == 1..(Len(profiles) + 1)
LogIdInputs == 1..(Len(gate_logs) + 1)
TraceIdInputs == 1..(Len(traces) + 1)

\* the profile a caller may select: none, an existing one, an unknown one
ProfileInputs == {None} \cup { Some(p) : p \in ProfileIdInputs }

\* the anchor id lists a caller may assign
AssignInputs ==
  {<<>>} \cup { <<i>> : i \in AnchorIdInputs }
         \cup { <<i, j>> : i \in DOMAIN anchors, j \in DOMAIN anchors }

\* no similarities: the semantic scorer is not consulted while SW_MATCHER
\* is naive
NoScore == <<>>

CreateAnchor ==
  /\ \E payload \in AnchorPool : create_anchor(payload)
  /\ UNCHANGED <<session, mcp>>

ArchiveAnchor ==
  /\ \E anchor_id \in AnchorIdInputs : archive_anchor(anchor_id)
  /\ UNCHANGED <<session, mcp>>

CreateProfileAnchor ==
  /\ \E payload \in ProfileAnchorPool : create_anchor(payload)
  /\ UNCHANGED <<session, mcp>>

CreateProfile == create_profile(FALSE) /\ UNCHANGED <<session, mcp>>

AssignAnchors ==
  /\ \E profile_id \in ProfileIdInputs, anchor_ids \in AssignInputs :
       assign_anchors(profile_id, anchor_ids)
  /\ UNCHANGED <<session, mcp>>

Evaluate ==
  /\ \E request_summary \in RequestPool, affect \in AffectPool :
       evaluate(request_summary, affect[1], affect[2], None, NoScore)
  /\ UNCHANGED <<session, mcp>>

EvaluateInProfile ==
  /\ \E request_summary \in ProfileRequestPool, profile_id \in ProfileInputs :
       evaluate(request_summary, "unknown", "unknown", profile_id, NoScore)
  /\ UNCHANGED <<session, mcp>>

Reframe ==
  /\ \E log_id \in LogIdInputs, new_intent \in RequestPool,
        affect \in OverridePool :
       reframe(log_id, new_intent, affect[1], affect[2], NoScore)
  /\ UNCHANGED <<session, mcp>>

Acknowledge ==
  /\ \E log_id \in LogIdInputs, affect \in OverridePool :
       acknowledge(log_id, affect[1], affect[2])
  /\ UNCHANGED <<session, mcp>>

Replay ==
  /\ \E trace_id \in TraceIdInputs : replay(trace_id, NoScore)
  /\ UNCHANGED <<session, mcp>>

\* the gate over the global anchor set
Next ==
  \/ CreateAnchor
  \/ ArchiveAnchor
  \/ Evaluate
  \/ Reframe
  \/ Acknowledge
  \/ Replay

Spec == Init /\ [][Next]_vars

\* the gate over policy profiles
NextProfiles ==
  \/ CreateProfileAnchor
  \/ ArchiveAnchor
  \/ CreateProfile
  \/ AssignAnchors
  \/ EvaluateInProfile
  \/ Replay

SpecProfiles == Init /\ [][NextProfiles]_vars

\* the refund scenario: payments anchors and refund requests
CreateRefundAnchor ==
  /\ \E payload \in RefundAnchorPool : create_anchor(payload)
  /\ UNCHANGED <<session, mcp>>

EvaluateRefund ==
  /\ \E request_summary \in RefundRequestPool :
       evaluate(request_summary, "unknown", "unknown", None, NoScore)
  /\ UNCHANGED <<session, mcp>>

NextRefund ==
  \/ CreateRefundAnchor
  \/ ArchiveAnchor
  \/ EvaluateRefund
  \/ Replay

SpecRefund == Init /\ [][NextRefund]_vars

\* ------------------------------------------------------------------------
\* An evaluate in flight, interleaved with anchor edits and with
\* acknowledgements.  A second writer to gate_logs waits while rows of the
\* session are flushed (SQLite has one writer at a time).
\* ------------------------------------------------------------------------
BeginEvaluate ==
  \E request_summary \in ProfileRequestPool :
    begin_evaluate(request_summary, "unknown", "unknown")

AcknowledgeBeforeFlush ==
  /\ session.log = <<>>
  /\ \E log_id \in LogIdInputs : acknowledge(log_id, None, None)
  /\ UNCHANGED <<session, mcp>>

NextSession ==
  \/ CreateProfileAnchor
  \/ ArchiveAnchor
  \/ BeginEvaluate
  \/ flush_log
  \/ flush_trace
  \/ snapshot_anchors
  \/ commit_evaluate
  \/ abort_evaluate
  \/ AcknowledgeBeforeFlush

SpecSession == Init /\ [][NextSession]_vars

\* ------------------------------------------------------------------------
\* Every operation that touches the audit tables or what they refer to:
\* the decisions, replay, anchor archive and profile assignment.
\* ------------------------------------------------------------------------
ReframeSame ==
  /\ \E log_id \in LogIdInputs, new_intent \in ProfileRequestPool :
       reframe(log_id, new_intent, None, None, NoScore)
  /\ UNCHANGED <<session, mcp>>

AcknowledgeSame ==
  /\ \E log_id \in LogIdInputs : acknowledge(log_id, None, None)
  /\ UNCHANGED <<session, mcp>>

AssignOne ==
  /\ \E profile_id \in DOMAIN profiles,
        anchor_ids \in {<<>>} \cup { <<i>> : i \in DOMAIN anchors } :
       assign_anchors(profile_id, anchor_ids)
  /\ UNCHANGED <<session, mcp>>

NextAudit ==
  \/ CreateProfileAnchor
  \/ ArchiveAnchor
  \/ CreateProfile
  \/ AssignOne
  \/ EvaluateInProfile
  \/ ReframeSame
  \/ AcknowledgeSame
  \/ Replay

SpecAudit == Init /\ [][NextAudit]_vars

\* ------------------------------------------------------------------------
\* The gate under either matcher backend.  The process reads SW_MATCHER on
\* every call; the semantic scorer's similarities are drawn from SimsPool.
\* ------------------------------------------------------------------------
MatcherValues == {"naive", "embedding"}

\* similarities below, at and above the threshold
ScorePool == {30, 50, 70}

SimsPool == [1..MaxAnchors -> ScorePool]

\* the process environment is set to another backend
SetMatcher ==
  /\ \E value \in MatcherValues \ {sw_matcher} : sw_matcher' = value
  /\ UNCHANGED <<anchors, profiles, profile_anchors, gate_logs, traces,
                 response, session, mcp>>

EvaluateScored ==
  /\ \E request_summary \in ProfileRequestPool, sims \in SimsPool :
       evaluate(request_summary, "unknown", "unknown", None, sims)
  /\ UNCHANGED <<session, mcp>>

ReplayScored ==
  /\ \E trace_id \in TraceIdInputs, sims \in SimsPool : replay(trace_id, sims)
  /\ UNCHANGED <<session, mcp>>

NextMatcher ==
  \/ CreateProfileAnchor
  \/ SetMatcher
  \/ EvaluateScored
  \/ ReplayScored

SpecMatcher == Init /\ [][NextMatcher]_vars

\* ------------------------------------------------------------------------
\* The decision function on its own: a call is drawn from the inputs below
\* and decide is applied to it.
\* ------------------------------------------------------------------------
MaxSeverity == 4

IdLists == { <<>>, <<1>>, <<1, 2>> }

DecideInputs ==
  [severity : 0..MaxSeverity, arousal : AffectValues,
   dominance : AffectValues, ids : IdLists]

InitDecide ==
  /\ anchors = <<>>
  /\ profiles = <<>>
  /\ profile_anchors = <<>>
  /\ gate_logs = <<>>
  /\ traces = <<>>
  /\ sw_matcher = "naive"
  /\ response \in { Response("decide", 0, in, NoOut) : in \in DecideInputs }
  /\ session = NoSession
  /\ mcp = NoCall

ApplyDecide ==
  /\ response.op = "decide"
  /\ response.status = 0
  /\ response' =
       Response("decide", 200, response.in,
                decide(UserState(response.in.arousal, response.in.dominance),
                       response.in.ids, response.in.severity))
  /\ UNCHANGED <<store, session, mcp>>

NextDecide == ApplyDecide

SpecDecide == InitDecide /\ [][NextDecide]_vars

\* ------------------------------------------------------------------------
\* Properties
\* ------------------------------------------------------------------------
\* the anchor ids a Gate Log row lists as conflicted
ListedIds(row) == Range(parse_id_list(row.conflicted_anchor_ids))

\* C1: in every reachable store state no Gate Log row with decision
\* "proceed" lists a level-3 anchor among its conflicted anchor ids,
\* whichever of evaluate, reframe and acknowledge wrote the row.
C1_NoProceedRowListsLevel3 ==
  \A i \in DOMAIN gate_logs :
    gate_logs[i].decision = "proceed" =>
      \A k \in ListedIds(gate_logs[i]) :
        k \in DOMAIN anchors /\ anchors[k].level < 3

\* a proceed row written by acknowledge lists a conflicted anchor while a
\* level-3 anchor is active in the store
C1_Witness ==
  /\ \E i \in DOMAIN gate_logs :
       /\ gate_logs[i].decision = "proceed"
       /\ gate_logs[i].reason = "proceed_acknowledged"
       /\ ListedIds(gate_logs[i]) # {}
  /\ \E a \in DOMAIN anchors : anchors[a].level = 3 /\ anchors[a].active

\* the level-2 reasons
Level2Reasons == {"l2_anchor_conflict", "state_mismatch_with_l2_anchor"}

\* C3: acknowledge succeeds if and only if the parent Gate Log row exists,
\* has decision "gate" and a level-2 reason; otherwise it fails with a client
\* error (404 or 422) and appends no Gate Log row.
C3_AcknowledgePrecondition ==
  [][ \A log_id \in LogIdInputs, affect \in OverridePool :
        acknowledge(log_id, affect[1], affect[2]) =>
          /\ (response'.status = 200) <=>
               /\ log_id \in DOMAIN gate_logs
               /\ gate_logs[log_id].decision = "gate"
               /\ gate_logs[log_id].reason \in Level2Reasons
          /\ response'.status # 200 =>
               /\ response'.status \in {404, 422}
               /\ gate_logs' = gate_logs ]_vars

\* an acknowledge of a level-3 gate has just been rejected
C3_Witness ==
  /\ response.op = "acknowledge"
  /\ response.status = 422
  /\ response.in.log_id \in DOMAIN gate_logs
  /\ gate_logs[response.in.log_id].decision = "gate"
  /\ gate_logs[response.in.log_id].reason = "l3_anchor_conflict"

\* C4: a successful acknowledge writes one new Gate Log row with decision
\* "proceed", reason "proceed_acknowledged", the parent's request text and
\* conflicted-anchor-id list, the affect state of the call (the parent's
\* where not overridden) and the annotation proceed_acknowledged:<parent
\* id>; the rows already in the log, the parent among them, are unchanged.
C4_AcknowledgeRow ==
  [][ \A log_id \in LogIdInputs, affect \in OverridePool :
        (acknowledge(log_id, affect[1], affect[2]) /\ response'.status = 200)
        => /\ Len(gate_logs') = Len(gate_logs) + 1
           /\ \A i \in DOMAIN gate_logs : gate_logs'[i] = gate_logs[i]
           /\ LET parent == gate_logs[log_id]
                  row == gate_logs'[Len(gate_logs')]
              IN  /\ row.decision = "proceed"
                  /\ row.reason = "proceed_acknowledged"
                  /\ row.request_summary = parent.request_summary
                  /\ row.conflicted_anchor_ids = parent.conflicted_anchor_ids
                  /\ row.arousal = IF affect[1] = None THEN parent.arousal
                                                       ELSE affect[1][1]
                  /\ row.dominance = IF affect[2] = None THEN parent.dominance
                                                         ELSE affect[2][1]
                  /\ row.user_choice =
                       <<"proceed_acknowledged:", IntToStr(parent.id)>>
                  /\ traces' = traces /\ anchors' = anchors ]_vars

\* an acknowledge has just succeeded with the affect state overridden
C4_Witness ==
  /\ response.op = "acknowledge"
  /\ response.status = 200
  /\ gate_logs[response.out.log_id].arousal = "high"
  /\ gate_logs[response.out.parent_log_id].arousal = "unknown"
  /\ gate_logs[response.out.log_id].conflicted_anchor_ids # <<>>

\* the first matching row of the transition table
TableDecision(severity) == IF severity >= 2 THEN "gate" ELSE "proceed"

TableReason(severity, arousal, dominance) ==
  IF severity >= 3
    THEN IF arousal = "high" /\ dominance = "low"
           THEN "state_mismatch_with_l3_anchor" ELSE "l3_anchor_conflict"
  ELSE IF severity = 2
    THEN IF arousal = "high" /\ dominance = "low"
           THEN "state_mismatch_with_l2_anchor" ELSE "l2_anchor_conflict"
  ELSE IF severity = 1 THEN "l1_advisory_conflict"
  ELSE "no_conflict"

\* C2: for every severity and all 16 affect combinations decide returns
\* the first matching row of the transition table (gate with the level-3
\* reasons for severity >= 3, gate with the level-2 reasons for severity 2,
\* proceed / l1_advisory_conflict for 1, proceed / no_conflict with an empty
\* conflicted-id list for 0) and never returns "refuse".
C2_DecideTable ==
  (response.op = "decide" /\ response.status = 200) =>
    /\ response.out.decision = TableDecision(response.in.severity)
    /\ response.out.reason =
         TableReason(response.in.severity, response.in.arousal,
                     response.in.dominance)
    /\ response.out.conflicted_anchor_ids =
         IF response.in.severity = 0 THEN <<>> ELSE response.in.ids
    /\ response.out.decision # "refuse"

\* decide has been applied to a level-3 conflict in a calm state
C2_Witness ==
  /\ response.op = "decide"
  /\ response.status = 200
  /\ response.in.severity = 3
  /\ response.in.arousal = "low"
  /\ response.in.dominance = "high"
  /\ response.out.reason = "l3_anchor_conflict"

\* C5: for any trace produced by evaluate, a replay with no anchor change
\* since the trace returns same_decision, same_reason and same_explanation
\* all true, and a second replay returns the same report.
C5_ReplayIdempotent ==
  \A t \in DOMAIN traces :
    \E report \in { ReplayReport(t, NoScore) } :
      report.anchor_drift = <<>> =>
        /\ report.same_decision
        /\ report.same_reason
        /\ report.same_explanation
        /\ (response.op = "replay" /\ response.status = 200
              /\ response.in.trace_id = t) => response.out = report

\* a snapshot row whose anchor is as it was when the trace was written
RowUnchanged(r) ==
  /\ r.anchor_id \in DOMAIN anchors
  /\ anchors[r.anchor_id].level = r.level_snapshot
  /\ anchors[r.anchor_id].scope = r.scope_snapshot
  /\ anchors[r.anchor_id].statement = r.statement_snapshot
  /\ anchors[r.anchor_id].active = r.active_snapshot

SnapshotIds(t) ==
  { traces[t].anchors[k].anchor_id : k \in DOMAIN traces[t].anchors }

\* C6: for any trace produced by evaluate, with or without a profile,
\* replay reports same_decision and same_reason true whenever no anchor of
\* the trace's snapshot has changed, whatever anchors were created, other
\* anchors archived, profiles reassigned or evaluations made since.
C6_ReplaySameDecision ==
  \A t \in DOMAIN traces :
    (\A k \in DOMAIN traces[t].anchors : RowUnchanged(traces[t].anchors[k]))
    => \E report \in { ReplayReport(t, NoScore) } :
         report.same_decision /\ report.same_reason

\* a gated trace has just been replayed with its snapshot unchanged while
\* an active anchor outside the snapshot exists
C6_Witness ==
  /\ response.op = "replay"
  /\ response.status = 200
  /\ response.out.same_decision
  /\ response.out.decision_before = "gate"
  /\ \A k \in DOMAIN traces[response.in.trace_id].anchors :
       RowUnchanged(traces[response.in.trace_id].anchors[k])
  /\ \E a \in DOMAIN anchors :
       anchors[a].active /\ a \notin SnapshotIds(response.in.trace_id)

\* C7: if an anchor of a trace's snapshot is archived after the trace was
\* written, every later replay of the trace returns a non-empty anchor_drift
\* list with an entry for that anchor's active flag change, True -> False.
C7_ArchivedAnchorDrift ==
  \A t \in DOMAIN traces :
    \A k \in DOMAIN traces[t].anchors :
      LET r == traces[t].anchors[k]
      IN  (r.anchor_id \in DOMAIN anchors /\ r.active_snapshot
             /\ ~anchors[r.anchor_id].active)
          => \E report \in { ReplayReport(t, NoScore) } :
               /\ report.anchor_drift # <<>>
               /\ [kind |-> "active flag changed", anchor_id |-> r.anchor_id,
                   before |-> <<"T","r","u","e">>,
                   after |-> <<"F","a","l","s","e">>]
                    \in Range(report.anchor_drift)

\* a trace has just been replayed after an anchor of its snapshot was
\* archived
C7_Witness ==
  /\ response.op = "replay"
  /\ response.status = 200
  /\ \E k \in DOMAIN response.out.anchor_drift :
       /\ response.out.anchor_drift[k].kind = "active flag changed"
       /\ response.out.anchor_drift[k].anchor_id
            \in SnapshotIds(response.in.trace_id)
       /\ ~anchors[response.out.anchor_drift[k].anchor_id].active

\* C8: with one active anchor of level 3, scope "payments" and the payments
\* statement, evaluating "Refund <pound>10000 to customer" with affect
\* unknown/unknown gates with reason l3_anchor_conflict, and an immediate
\* replay of the trace returns same_decision true.
C8_RefundScenarioGates ==
  \A t \in DOMAIN traces :
    ( /\ traces[t].request_text = T_refund_10000
      /\ traces[t].arousal = "unknown"
      /\ traces[t].dominance = "unknown"
      /\ Len(traces[t].anchors) = 1
      /\ traces[t].anchors[1].level_snapshot = 3
      /\ traces[t].anchors[1].scope_snapshot = S_payments
      /\ traces[t].anchors[1].statement_snapshot = T_payments )
    => /\ traces[t].decision = "gate"
       /\ traces[t].reason = "l3_anchor_conflict"
       /\ \E report \in { ReplayReport(t, NoScore) } :
            report.anchor_drift = <<>> => report.same_decision

\* the negation inversion of the claim, from the normalizer
InversionOf(request_summary, statement) ==
  /\ _strip_not(_norm(request_summary)) = _strip_not(_norm(statement))
  /\ _has_not(_norm(request_summary)) # _has_not(_norm(statement))

InversionTable == { <<p, InversionOf(p[1], p[2])>> : p \in TextPairs }

\* C9: whenever the normalized request and the normalized statement of an
\* anchor considered are identical without their "not" tokens and exactly one
\* of them contains "not", the matcher flags the anchor, even without any
\* lexical overlap; a level-1 anchor "cats are allowed" and the request
\* "cats are not allowed" give a non-empty conflicted-id list with decision
\* proceed and reason l1_advisory_conflict.
C9_NegationInversion ==
  \A t \in DOMAIN traces :
    /\ \A k \in DOMAIN traces[t].anchors :
         <<<<traces[t].request_text,
             traces[t].anchors[k].statement_snapshot>>, TRUE>>
           \in InversionTable
         => traces[t].anchors[k].matched
    /\ ( /\ traces[t].request_text = T_cats_not_allowed
         /\ traces[t].anchors # <<>>
         /\ \A k \in DOMAIN traces[t].anchors :
              /\ traces[t].anchors[k].level_snapshot = 1
              /\ traces[t].anchors[k].statement_snapshot = T_cats_allowed )
       => /\ traces[t].match_debug.conflicted_ids # <<>>
          /\ traces[t].decision = "proceed"
          /\ traces[t].reason = "l1_advisory_conflict"

\* "cats are not allowed" has been evaluated against the level-1 anchor
\* "cats are allowed"
C9_Witness ==
  \E t \in DOMAIN traces :
    /\ traces[t].request_text = T_cats_not_allowed
    /\ Len(traces[t].anchors) = 1
    /\ traces[t].anchors[1].statement_snapshot = T_cats_allowed
    /\ traces[t].anchors[1].level_snapshot = 1
    /\ traces[t].anchors[1].matched
    /\ traces[t].reason = "l1_advisory_conflict"

\* the anchors assigned to a profile, enabled and active
ProfileScope(profile_id) ==
  { a \in DOMAIN anchors :
      /\ anchors[a].active
      /\ \E k \in DOMAIN profile_anchors[profile_id] :
           /\ profile_anchors[profile_id][k].anchor_id = a
           /\ profile_anchors[profile_id][k].enabled }

\* C10: an evaluate call with a profile_id considers exactly the anchors
\* assigned to that profile, enabled and active; an anchor outside the
\* profile appears neither among the conflicted ids nor in the snapshot, so
\* the request proceeds under a profile without a matching anchor and gates
\* under a profile holding the matching level >= 2 anchor.
C10_ProfileScoping ==
  (response.op = "evaluate" /\ response.status = 200
     /\ response.in.profile_id # None)
  => LET scope == ProfileScope(response.in.profile_id[1])
         matching == { a \in scope : anchors[a].statement = T_will_not_go }
     IN  /\ SnapshotIds(response.out.trace_id) = scope
         /\ Range(response.out.conflicted_anchor_ids) \subseteq scope
         /\ traces[response.out.trace_id].request_text = T_will_go
         /\ matching = {} => response.out.decision = "proceed"
         /\ matching # {} => response.out.decision = "gate"

\* two profiles hold one distinct anchor each; the request proceeded when
\* only the first anchor was considered and has just gated under the second
\* profile
C10_Witness ==
  /\ response.op = "evaluate"
  /\ response.status = 200
  /\ response.in.profile_id = Some(2)
  /\ response.out.decision = "gate"
  /\ Len(profile_anchors) = 2
  /\ Len(profile_anchors[1]) = 1
  /\ Len(profile_anchors[2]) = 1
  /\ profile_anchors[1][1].anchor_id # profile_anchors[2][1].anchor_id
  /\ Len(traces) = 2
  /\ SnapshotIds(1) = { profile_anchors[1][1].anchor_id }
  /\ SnapshotIds(2) = { profile_anchors[2][1].anchor_id }
  /\ traces[1].decision = "proceed"
  /\ \A a \in DOMAIN anchors : anchors[a].active

\* the anchors an evaluate considers: the active anchors, or the profile's
\* assigned, enabled and active ones
ConsideredIds(profile_id) ==
  IF profile_id = None
    THEN { a \in DOMAIN anchors : anchors[a].active }
    ELSE ProfileScope(profile_id[1])

\* C11: every evaluate writes exactly one snapshot row for each anchor it
\* considered and for no other anchor; each row holds the anchor's level,
\* scope, active flag, statement and stable hash as of the evaluation, with
\* matched true exactly for the returned conflicted ids; no (trace, anchor)
\* pair occurs twice.
C11_SnapshotPerConsideredAnchor ==
  [][(response'.op = "evaluate" /\ response'.status = 200)
     => /\ Len(traces') = Len(traces) + 1
        /\ LET rows == traces'[Len(traces')].anchors
           IN  /\ { rows[k].anchor_id : k \in DOMAIN rows }
                    = ConsideredIds(response'.in.profile_id)
               /\ \A j, k \in DOMAIN rows :
                    rows[j].anchor_id = rows[k].anchor_id => j = k
               /\ \A k \in DOMAIN rows :
                    /\ rows[k].trace_id = response'.out.trace_id
                    /\ rows[k].level_snapshot = anchors[rows[k].anchor_id].level
                    /\ rows[k].scope_snapshot = anchors[rows[k].anchor_id].scope
                    /\ rows[k].active_snapshot
                         = anchors[rows[k].anchor_id].active
                    /\ rows[k].statement_snapshot
                         = anchors[rows[k].anchor_id].statement
                    /\ rows[k].anchor_hash
                         = stable_hash(anchors[rows[k].anchor_id])
                    /\ rows[k].matched
                         <=> rows[k].anchor_id
                               \in Range(response'.out.conflicted_anchor_ids)]_vars

\* an evaluate under a profile has snapshotted two anchors, one matched and
\* one not
C11_Witness ==
  /\ response.op = "evaluate"
  /\ response.status = 200
  /\ response.in.profile_id # None
  /\ Len(traces[response.out.trace_id].anchors) = 2
  /\ traces[response.out.trace_id].anchors[1].matched
       # traces[response.out.trace_id].anchors[2].matched

\* C12: in every committed store state, also after an evaluate that failed
\* between its first write and its commit, there are as many traces as Gate
\* Log rows written by evaluate, every such row has its trace and every
\* trace has the snapshot of every anchor it evaluated.
C12_AtomicAuditRecord ==
  /\ Cardinality({ i \in DOMAIN gate_logs : gate_logs[i].user_choice = None })
       = Len(traces)
  /\ \A i \in DOMAIN gate_logs :
       gate_logs[i].user_choice = None
       => \E t \in DOMAIN traces :
            /\ traces[t].request_text = gate_logs[i].request_summary
            /\ traces[t].decision = gate_logs[i].decision
            /\ traces[t].reason = gate_logs[i].reason
  /\ \A t \in DOMAIN traces :
       Len(traces[t].anchors) = traces[t].match_debug.evaluated_anchor_count

\* an evaluate has failed after its last flush, with an earlier evaluation
\* on record
C12_Witness ==
  /\ response.op = "evaluate"
  /\ response.status = 500
  /\ response.in.pc = "snapshotted"
  /\ Len(traces) = 1
  /\ traces[1].anchors # <<>>

\* the anchors a trace's snapshot rows describe
AnchorsOfRows(rows) ==
  [k \in DOMAIN rows |->
     [id |-> rows[k].anchor_id, level |-> rows[k].level_snapshot,
      statement |-> rows[k].statement_snapshot,
      scope |-> rows[k].scope_snapshot, active |-> rows[k].active_snapshot]]

\* C19: when an anchor archive or creation interleaves with an evaluate in
\* flight, the committed snapshot reflects the anchor store at one single
\* point in time, the load: the rows, their matched flags and the recorded
\* decision all derive from the same anchor states.
C19_SnapshotAtOnePoint ==
  [][(session.pc = "snapshotted" /\ response'.op = "evaluate"
        /\ response'.status = 200)
     => \E asof \in { AnchorsOfRows(traces'[Len(traces')].anchors) } :
        \E conflicts \in
             { naive_conflicts(traces'[Len(traces')].request_text, asof) } :
        \E result \in
             { decide(UserState(traces'[Len(traces')].arousal,
                                traces'[Len(traces')].dominance),
                      IdsOf(conflicts), MaxLevel(conflicts)) } :
          /\ asof = session.active_anchors
          /\ \A k \in DOMAIN asof :
               /\ asof[k].active
               /\ traces'[Len(traces')].anchors[k].anchor_hash
                    = stable_hash(asof[k])
               /\ traces'[Len(traces')].anchors[k].matched
                    <=> asof[k].id \in Range(IdsOf(conflicts))
          /\ traces'[Len(traces')].decision = result.decision
          /\ traces'[Len(traces')].reason = result.reason]_vars

\* an evaluate has committed a snapshot of an anchor that was archived while
\* the evaluate was in flight
C19_Witness ==
  /\ response.op = "evaluate"
  /\ response.status = 200
  /\ session.pc = "idle"
  /\ \E k \in DOMAIN traces[response.out.trace_id].anchors :
       /\ traces[response.out.trace_id].anchors[k].active_snapshot
       /\ traces[response.out.trace_id].anchors[k].matched
       /\ ~anchors[traces[response.out.trace_id].anchors[k].anchor_id].active

\* C13: the audit store is append-only.  A successful evaluate adds one Gate
\* Log row and one trace, a successful reframe or acknowledge adds one Gate
\* Log row and no trace, every other call adds nothing; the new rows carry
\* ids no earlier row has; no operation changes or removes an existing Gate
\* Log row, trace or snapshot row.
C13_AppendOnly ==
  [][/\ Len(gate_logs') >= Len(gate_logs)
     /\ \A i \in DOMAIN gate_logs : gate_logs'[i] = gate_logs[i]
     /\ Len(traces') >= Len(traces)
     /\ \A t \in DOMAIN traces : traces'[t] = traces[t]
     /\ IF response'.op = "evaluate" /\ response'.status = 200
          THEN /\ Len(gate_logs') = Len(gate_logs) + 1
               /\ Len(traces') = Len(traces) + 1
               /\ gate_logs'[Len(gate_logs')].id = response'.out.log_id
               /\ traces'[Len(traces')].id = response'.out.trace_id
               /\ \A i \in DOMAIN gate_logs :
                    gate_logs[i].id # response'.out.log_id
               /\ \A t \in DOMAIN traces :
                    traces[t].id # response'.out.trace_id
        ELSE IF response'.op \in {"reframe", "acknowledge"}
                  /\ response'.status = 200
          THEN /\ Len(gate_logs') = Len(gate_logs) + 1
               /\ traces' = traces
               /\ gate_logs'[Len(gate_logs')].id = response'.out.log_id
               /\ \A i \in DOMAIN gate_logs :
                    gate_logs[i].id # response'.out.log_id
        ELSE gate_logs' = gate_logs /\ traces' = traces]_vars

\* the same evaluate call has been made twice: two Gate Log rows and two
\* traces with distinct ids and the same gated decision
C13_Witness ==
  /\ response.op = "evaluate"
  /\ response.status = 200
  /\ Len(gate_logs) = 2
  /\ Len(traces) = 2
  /\ gate_logs[1].id # gate_logs[2].id
  /\ traces[1].id # traces[2].id
  /\ gate_logs[1].user_choice = None
  /\ gate_logs[2].user_choice = None
  /\ gate_logs[1].request_summary = gate_logs[2].request_summary
  /\ gate_logs[1].decision = "gate"
  /\ gate_logs[2].decision = "gate"
  /\ traces[1].anchors = [k \in DOMAIN traces[2].anchors |->
                           [traces[2].anchors[k] EXCEPT !.trace_id = 1]]

\* what a profile-less evaluate of a text returns in the current store
EvaluateWouldReturn(request_summary, arousal, dominance) ==
  CHOOSE d \in
    { decide(UserState(arousal, dominance), IdsOf(conflicts),
             MaxLevel(conflicts)) :
        conflicts \in
          { _detect_conflicts(request_summary,
                              SelectSeq(anchors, LAMBDA a : a.active),
                              sw_matcher, <<>>).conflicts } } : TRUE

\* C14: the decision, reason and conflicted anchor ids of a reframe equal
\* what a profile-less evaluate of the new text returns in the same store
\* with the effective affect state (the override when given, otherwise the
\* parent's), whatever the parent's own decision, reason or conflicts; and
\* a profile-less evaluate returns just that.
C14_ReframeAsEvaluate ==
  [][/\ (response'.op = "reframe" /\ response'.status = 200) =>
        \A log_id \in {response'.in.log_id}, new_intent \in RequestPool,
           affect \in OverridePool :
          (reframe(log_id, new_intent, affect[1], affect[2], <<>>)
             /\ response'.status = 200)
          => \E would \in
               { EvaluateWouldReturn(
                   new_intent,
                   IF affect[1] # None THEN affect[1][1]
                                       ELSE gate_logs[log_id].arousal,
                   IF affect[2] # None THEN affect[2][1]
                                       ELSE gate_logs[log_id].dominance) } :
               /\ response'.out.decision = would.decision
               /\ response'.out.reason = would.reason
               /\ response'.out.conflicted_anchor_ids
                    = would.conflicted_anchor_ids
     /\ (response'.op = "evaluate" /\ response'.status = 200) =>
        \A request_summary \in RequestPool, affect \in AffectPool :
          (evaluate(request_summary, affect[1], affect[2], None, <<>>)
             /\ response'.status = 200)
          => \E would \in
               { EvaluateWouldReturn(request_summary, affect[1], affect[2]) } :
               /\ response'.out.decision = would.decision
               /\ response'.out.reason = would.reason
               /\ response'.out.conflicted_anchor_ids
                    = would.conflicted_anchor_ids]_vars

\* a gated request has been reframed with an overriding affect state into a
\* text that conflicts with another anchor
C14_Witness ==
  /\ response.op = "reframe"
  /\ response.status = 200
  /\ gate_logs[response.in.log_id].decision = "gate"
  /\ gate_logs[response.in.log_id].arousal = "unknown"
  /\ gate_logs[response.out.log_id].arousal = "high"
  /\ response.out.reason # gate_logs[response.in.log_id].reason
  /\ response.out.conflicted_anchor_ids # <<>>
  /\ response.out.conflicted_anchor_ids
       # parse_id_list(gate_logs[response.in.log_id].conflicted_anchor_ids)

\* C15: replay is a pure function of the trace's stored request, its stored
\* affect state and the current content of the anchors it considered: in two
\* states that agree on those, a replay of the trace returns the same
\* decision_now, reason_now and explanation, whatever else differs, the
\* matcher backend setting included.
C15_ReplayPure ==
  [][(anchors' = anchors /\ traces' = traces)
     => \A t \in DOMAIN traces, sims \in SimsPool :
          \E before \in { ReplayReport(t, sims) } :
          \E after \in { ReplayReport(t, sims)' } :
            /\ before.decision_now = after.decision_now
            /\ before.reason_now = after.reason_now
            /\ before.explanation = after.explanation]_vars

\* C16: with the semantic matcher selected, if the scorer returns no anchor
\* at or above the threshold the conflict set is the lexical matcher's
\* result and the trace records fallback_used, embedding_no_matches and
\* naive_fallback; if the scorer returns a match the conflict set is exactly
\* the scorer's matches in descending score order and no fallback is
\* recorded.
C16_MatcherFallback ==
  [][(response'.op = "evaluate" /\ response'.status = 200
        /\ sw_matcher = "embedding")
     => \A request_summary \in ProfileRequestPool, sims \in SimsPool :
          evaluate(request_summary, "unknown", "unknown", None, sims)
          => \E above \in { { a \in DOMAIN anchors :
                                anchors[a].active
                                  /\ sims[a] >= EMBEDDING_THRESHOLD } } :
             \E ids \in { response'.out.conflicted_anchor_ids } :
             \E dbg \in { traces'[Len(traces')].match_debug } :
               /\ dbg.conflicted_ids = ids
               /\ dbg.matcher_requested = "embedding"
               /\ IF above = {}
                    THEN /\ ids = IdsOf(naive_conflicts(
                                    request_summary,
                                    SelectSeq(anchors, LAMBDA a : a.active)))
                         /\ dbg.fallback_used
                         /\ dbg.fallback_reason = "embedding_no_matches"
                         /\ dbg.matcher_used = "naive_fallback"
                    ELSE /\ Range(ids) = above
                         /\ Len(ids) = Cardinality(above)
                         /\ \A i, j \in DOMAIN ids :
                              i < j => sims[ids[i]] >= sims[ids[j]]
                         /\ ~dbg.fallback_used
                         /\ dbg.fallback_reason = "None"
                         /\ dbg.matcher_used = "embedding"]_vars

\* one evaluation fell back to the lexical matcher and found a conflict;
\* another took two scorer matches, the later anchor scoring higher
C16_Witness ==
  \E t, u \in DOMAIN traces :
    /\ traces[t].match_debug.fallback_used
    /\ traces[t].match_debug.conflicted_ids # <<>>
    /\ traces[u].match_debug.matcher_used = "embedding"
    /\ traces[u].match_debug.conflicted_ids = <<2, 1>>

\* C17 as stated: the next actions are fixed by the reason code; level-3
\* conflict decisions offer reframe, view_conflicts and cancel, level-2
\* conflict decisions offer those and proceed_acknowledged,
\* l1_advisory_conflict and no_conflict decisions offer proceed alone.
C17_NextActionsAsStated ==
  (response.op = "decide" /\ response.status = 200) =>
    /\ response.out.reason
         \in {"l3_anchor_conflict", "state_mismatch_with_l3_anchor"}
       => Range(response.out.next_actions)
            = {"reframe", "view_conflicts", "cancel"}
    /\ response.out.reason
         \in {"l2_anchor_conflict", "state_mismatch_with_l2_anchor"}
       => Range(response.out.next_actions)
            = {"reframe", "view_conflicts", "cancel", "proceed_acknowledged"}
    /\ response.out.reason \in {"l1_advisory_conflict", "no_conflict"}
       => response.out.next_actions = <<"proceed">>

\* the next actions decide lists for a reason code
ActionsOfReason(reason) ==
  CASE reason = "l3_anchor_conflict" -> <<"reframe", "view_conflicts", "cancel">>
    [] reason = "state_mismatch_with_l3_anchor" ->
         <<"pause", "reframe", "view_conflicts">>
    [] reason = "l2_anchor_conflict" ->
         <<"reframe", "proceed_acknowledged", "view_conflicts">>
    [] reason = "state_mismatch_with_l2_anchor" ->
         <<"pause", "reframe", "proceed_acknowledged", "view_conflicts">>
    [] reason = "l1_advisory_conflict" -> <<"proceed", "view_conflicts">>
    [] reason = "no_conflict" -> <<"proceed">>
    [] OTHER -> <<>>

\* C17, amended: the next actions are fixed by the reason code;
\* l3_anchor_conflict offers reframe, view_conflicts and cancel, its state
\* mismatch variant pause, reframe and view_conflicts; the level-2 reasons
\* offer reframe, proceed_acknowledged and view_conflicts, preceded by pause
\* on a state mismatch; l1_advisory_conflict offers proceed and
\* view_conflicts; no_conflict offers proceed alone.
C17_NextActionsByReason ==
  (response.op = "decide" /\ response.status = 200) =>
    /\ response.out.next_actions = ActionsOfReason(response.out.reason)
    /\ response.out.next_actions # <<>>
    /\ "proceed_acknowledged" \in Range(response.out.next_actions)
         <=> response.out.reason
               \in {"l2_anchor_conflict", "state_mismatch_with_l2_anchor"}

\* decide has been applied to a level-2 conflict in a high-arousal,
\* low-control state
C17_Witness ==
  /\ response.op = "decide"
  /\ response.status = 200
  /\ response.in.severity = 2
  /\ response.out.reason = "state_mismatch_with_l2_anchor"
  /\ response.out.next_actions
       = <<"pause", "reframe", "proceed_acknowledged", "view_conflicts">>

\* ------------------------------------------------------------------------
\* Default profile flag.  backend/src/app/api/profiles.py stores the flag
\* as given (create_profile above); src/app/api/profiles.py clears the flag
\* of every other profile first, in create_profile and in update_profile.
\* Profile names are not part of the state: the 409 of a name clash is a
\* choice that exists once another profile does.
\* ------------------------------------------------------------------------
ClearDefaults(rows) ==
  [i \in DOMAIN rows |-> [rows[i] EXCEPT !.is_default = FALSE]]

src_create_profile(name_taken, is_default) ==
  LET in == [is_default |-> is_default]
  IN  /\ Len(profiles) < MaxProfiles
      /\ IF name_taken
           THEN /\ Len(profiles) > 0
                /\ response' = Response("create_profile", 409, in, NoOut)
                /\ UNCHANGED store
         ELSE LET profile == [id |-> Len(profiles) + 1, active |-> TRUE,
                              is_default |-> is_default]
                  kept == IF is_default THEN ClearDefaults(profiles)
                          ELSE profiles
              IN  /\ profiles' = Append(kept, profile)
                  /\ profile_anchors' = Append(profile_anchors, <<>>)
                  /\ response' = Response("create_profile", 201, in, profile)
                  /\ UNCHANGED <<anchors, gate_logs, traces, sw_matcher>>

update_profile(profile_id, name_taken, is_default) ==
  LET in == [profile_id |-> profile_id, is_default |-> is_default]
  IN  IF profile_id \notin DOMAIN profiles
        THEN /\ ~name_taken
             /\ response' = Response("update_profile", 404, in, NoOut)
             /\ UNCHANGED store
      ELSE IF name_taken
        THEN /\ Len(profiles) > 1
             /\ response' = Response("update_profile", 409, in, NoOut)
             /\ UNCHANGED store
      ELSE LET updated == IF is_default = Some(TRUE)
                            THEN [ClearDefaults(profiles) EXCEPT ![profile_id].is_default = TRUE]
                          ELSE profiles
           IN  /\ profiles' = updated
               /\ response' = Response("update_profile", 200, in, updated[profile_id])
               /\ UNCHANGED <<anchors, profile_anchors, gate_logs, traces, sw_matcher>>

DefaultProfiles == { p \in DOMAIN profiles : profiles[p].is_default }

CreateProfileFlagged ==
  /\ \E is_default \in BOOLEAN : create_profile(is_default)
  /\ UNCHANGED <<session, mcp>>

NextDefault ==
  \/ CreateProfileFlagged
  \/ CreateProfileAnchor
  \/ AssignOne
  \/ ArchiveAnchor

SpecDefault == Init /\ [][NextDefault]_vars

SrcCreateProfile ==
  /\ \E name_taken, is_default \in BOOLEAN : src_create_profile(name_taken, is_default)
  /\ UNCHANGED <<session, mcp>>

UpdateProfile ==
  /\ \E profile_id \in ProfileIdInputs, name_taken \in BOOLEAN, is_default \in {None, Some(TRUE), Some(FALSE)} :
       update_profile(profile_id, name_taken, is_default)
  /\ UNCHANGED <<session, mcp>>

NextDefaultSrc ==
  \/ SrcCreateProfile
  \/ UpdateProfile
  \/ CreateProfileAnchor
  \/ AssignOne

SpecDefaultSrc == Init /\ [][NextDefaultSrc]_vars

\* C18: after any sequence of profile create and update operations, at most
\* one policy profile has its default flag set.  The create_profile of
\* backend/src/app/api/profiles.py breaks it: two creations with
\* is_default = TRUE leave two default profiles.  Under SpecDefaultSrc, the
\* handlers of src/app/api/profiles.py, the same predicate is an invariant.
C18_AtMostOneDefault == Cardinality(DefaultProfiles) <= 1

\* ------------------------------------------------------------------------
\* MCP gate wrapper (mcp_demo/server.py).  A tool call is summarised, the
\* summary is posted to /gate/evaluate, and the executor of the tool runs
\* or not by the reply.  The server at SW_BASE_URL is the backend above, or
\* it is down, fails, times out, or is some other server.
\* ------------------------------------------------------------------------
BYPASS_GATE == { N_sw_check_health, N_sw_list_anchors, N_sw_get_logs }

TOOL_EXECUTORS ==
  { N_send_email, N_delete_file, N_process_payment, N_read_file,
    N_run_shell_command, N_sw_check_health, N_sw_list_anchors, N_sw_get_logs }

\* gate_result.get("decision", "gate") with the reply accepted on any
\* missing field
GetDecision_default_proceed(gate_result) ==
  IF "decision" \in DOMAIN gate_result THEN gate_result.decision
  ELSE "proceed"

\* gate_result.get("decision", "gate")
GetDecision(gate_result) ==
  IF "decision" \in DOMAIN gate_result THEN gate_result.decision ELSE "gate"

Returned(call, executed, text) ==
  [call EXCEPT !.pc = "returned", !.executed = executed, !.text = text]

\* call_tool up to the await of _gate_evaluate; a bypass tool runs at once
call_tool(name, arguments) ==
  /\ mcp.pc \in {"idle", "returned"}
  /\ LET call == [NoCall EXCEPT !.name = name, !.arguments = arguments]
     IN  mcp' =
           IF name \in BYPASS_GATE
             THEN IF name \in TOOL_EXECUTORS
                    THEN Returned(call, TRUE, "result")
                    ELSE Returned(call, FALSE, "unknown_tool")
             ELSE [call EXCEPT !.pc = "gate",
                               !.request_summary = _summarise_call(name, arguments)]
  /\ UNCHANGED <<store, response, session>>

\* _gate_evaluate answered by the backend
_gate_evaluate ==
  /\ mcp.pc = "gate"
  /\ evaluate(mcp.request_summary, "unknown", "unknown", None, NoScore)
  /\ mcp' = [mcp EXCEPT !.pc = "gated",
                        !.gate_result = [kind |-> "json", body |-> response'.out]]
  /\ UNCHANGED session

\* the backend evaluates, the reply does not arrive within the timeout
_gate_evaluate_timeout ==
  /\ mcp.pc = "gate"
  /\ evaluate(mcp.request_summary, "unknown", "unknown", None, NoScore)
  /\ mcp' = [mcp EXCEPT !.pc = "gated",
                        !.gate_result = [kind |-> "error", body |-> NoGate.body]]
  /\ UNCHANGED session

\* httpx.ConnectError, or any other exception of the post (an error status
\* raised by raise_for_status, a body that is not JSON)
_gate_evaluate_raises ==
  /\ mcp.pc = "gate"
  /\ \E kind \in {"connect_error", "error"} :
       mcp' = [mcp EXCEPT !.pc = "gated",
                          !.gate_result = [kind |-> kind, body |-> NoGate.body]]
  /\ UNCHANGED <<store, response, session>>

\* replies of a server that is not the backend above: a refusal, a JSON
\* object without a decision, a bare proceed, JSON that is not an object
OtherReplies ==
  { [kind |-> "json", body |-> [decision |-> "refuse"]],
    [kind |-> "json", body |-> [detail |-> "Not Found"]],
    [kind |-> "json", body |-> [decision |-> "proceed"]],
    [kind |-> "json_not_object", body |-> NoGate.body] }

_gate_evaluate_other_server ==
  /\ mcp.pc = "gate"
  /\ \E reply \in OtherReplies :
       mcp' = [mcp EXCEPT !.pc = "gated", !.gate_result = reply]
  /\ UNCHANGED <<store, response, session>>

\* call_tool from the return of _gate_evaluate to its own return
call_tool_resume ==
  /\ mcp.pc = "gated"
  /\ LET gate_result == mcp.gate_result
     IN  mcp' =
           IF gate_result.kind = "connect_error"
             THEN Returned(mcp, FALSE, "unreachable")
           ELSE IF gate_result.kind = "error"
             THEN Returned(mcp, FALSE, "gate_error")
           ELSE IF gate_result.kind = "json_not_object"
             \* .get on a list or a string raises out of call_tool
             THEN Returned(mcp, FALSE, "raised")
           ELSE IF GetDecision(gate_result.body) = "proceed"
             THEN IF mcp.name \notin TOOL_EXECUTORS
                    THEN Returned(mcp, FALSE, "unknown_tool")
                    ELSE Returned(mcp, TRUE, "proceed")
           ELSE Returned(mcp, FALSE, "blocked")
  /\ UNCHANGED <<store, response, session>>

CallTool == \E c \in McpCalls : call_tool(c.name, c.arguments)

NextMcp ==
  \/ CreateProfileAnchor
  \/ ArchiveAnchor
  \/ CallTool
  \/ _gate_evaluate
  \/ _gate_evaluate_timeout
  \/ _gate_evaluate_raises
  \/ _gate_evaluate_other_server
  \/ call_tool_resume

SpecMcp == Init /\ [][NextMcp]_vars

\* C20: in the MCP gate wrapper the executor of a tool outside the bypass
\* set has run only if the gate evaluation of that very call, made on the
\* summary of its name and arguments, returned the decision proceed; after
\* a gate or refuse decision, a reply without a decision, an unreachable
\* gate or any error of the evaluation, the tool has not been executed.
C20_FailClosed ==
  (mcp.executed /\ mcp.name \notin BYPASS_GATE) =>
    LET body == mcp.gate_result.body
    IN  /\ mcp.gate_result.kind = "json"
        /\ "decision" \in DOMAIN body
        /\ body.decision = "proceed"
        /\ mcp.request_summary = _summarise_call(mcp.name, mcp.arguments)
        /\ "log_id" \in DOMAIN body =>
             /\ body.log_id \in DOMAIN gate_logs
             /\ gate_logs[body.log_id].request_summary = mcp.request_summary
             /\ gate_logs[body.log_id].decision = "proceed"

C20_Witness ==
  /\ mcp.pc = "returned"
  /\ mcp.executed
  /\ mcp.name = N_read_file
  /\ mcp.gate_result.kind = "json"
  /\ "log_id" \in DOMAIN mcp.gate_result.body
  /\ \E i \in DOMAIN anchors : anchors[i].active /\ anchors[i].level = 3

\* C21: archiving is one-way and is the only mutation of an anchor: in
\* every step each existing anchor keeps its id, level, scope and
\* statement, and an anchor whose active flag is false keeps it false
\* (archiving it again leaves it archived).
C21_ArchiveOneWay ==
  [][\A i \in DOMAIN anchors :
       /\ i \in DOMAIN anchors'
       /\ anchors'[i].id = anchors[i].id
       /\ anchors'[i].level = anchors[i].level
       /\ anchors'[i].scope = anchors[i].scope
       /\ anchors'[i].statement = anchors[i].statement
       /\ ~anchors[i].active => ~anchors'[i].active]_vars

\* an anchor that a trace snapshot holds as active has been archived
C21_Witness ==
  /\ response.op = "archive_anchor"
  /\ response.status = 200
  /\ ~anchors[response.in.anchor_id].active
  /\ \E t \in DOMAIN traces :
       \E r \in DOMAIN traces[t].anchors :
         /\ traces[t].anchors[r].anchor_id = response.in.anchor_id
         /\ traces[t].anchors[r].active_snapshot

\* the anchors archived in the current store
ArchivedIds == { i \in DOMAIN anchors : ~anchors[i].active }

\* C22: after an anchor has been archived, no Gate Log row written by a
\* later evaluate or reframe lists it among the conflicted anchor ids and
\* no later trace holds a snapshot row for it, for a global evaluation and
\* for one scoped to a profile that still has the anchor assigned.  "Later"
\* is an evaluate or reframe that starts after the archive; an evaluate
\* already in flight snapshots the anchors it loaded (C19).
C22_ArchivedAnchorNotEvaluated ==
  [][(response'.op \in {"evaluate", "reframe"} /\ response'.status = 200) =>
       /\ Len(gate_logs') = Len(gate_logs) + 1
       /\ ListedIds(gate_logs'[Len(gate_logs')]) \cap ArchivedIds = {}
       /\ response'.op = "evaluate" =>
            /\ Len(traces') = Len(traces) + 1
            /\ \A r \in DOMAIN traces'[Len(traces')].anchors :
                 traces'[Len(traces')].anchors[r].anchor_id \notin ArchivedIds]_vars

\* an evaluate scoped to a profile whose assigned anchor is archived, an
\* anchor that the same request conflicted with while it was active
C22_Witness ==
  /\ response.op = "evaluate"
  /\ response.status = 200
  /\ response.in.profile_id # None
  /\ response.out.decision = "proceed"
  /\ \E r \in DOMAIN profile_anchors[response.in.profile_id[1]] :
       LET row == profile_anchors[response.in.profile_id[1]][r]
       IN  /\ row.enabled
           /\ row.anchor_id \in ArchivedIds
           /\ \E l \in DOMAIN gate_logs :
                /\ l < response.out.log_id
                /\ row.anchor_id \in ListedIds(gate_logs[l])
  /\ traces[response.out.trace_id].anchors = <<>>

\* ------------------------------------------------------------------------
\* Replay over any store.  The drift check of replay is a function of the
\* snapshot rows of the trace and of the truth_anchors table as it is now;
\* it has a branch for each way a row can differ, also the ways no handler
\* of the API produces (a deleted row, an edited level, scope or
\* statement).  Here the snapshot is any that evaluate can write, and the
\* table is any table over the same ids.
\* ------------------------------------------------------------------------
DriftAnchorsOf(id, actives) ==
  { [id |-> id, level |-> level, statement |-> statement, scope |-> scope, active |-> active] :
      level \in {2, 3}, statement \in {T_will_not_go, T_cats_allowed},
      scope \in {S_global, S_smoke}, active \in actives }

\* truth_anchors now
DriftStores ==
  {<<>>} \cup { <<a>> : a \in DriftAnchorsOf(1, BOOLEAN) }
         \cup { <<a, b>> : a \in DriftAnchorsOf(1, BOOLEAN), b \in DriftAnchorsOf(2, BOOLEAN) }

\* the active anchors an earlier evaluate considered
DriftSnapshots ==
  {<<>>} \cup { <<a>> : a \in DriftAnchorsOf(1, {TRUE}) \cup DriftAnchorsOf(2, {TRUE}) }
         \cup { <<a, b>> : a \in DriftAnchorsOf(1, {TRUE}), b \in DriftAnchorsOf(2, {TRUE}) }

\* the log row and the trace that evaluate wrote over those anchors
DriftAudit(old) ==
  LET detected == _detect_conflicts(T_will_go, old, "naive", NoScore)
      conflicted_ids == IdsOf(detected.conflicts)
      decision == decide(UserState("unknown", "unknown"), conflicted_ids, MaxLevel(detected.conflicts))
  IN  [log |-> GateLog(1, T_will_go, "unknown", "unknown", decision.decision, decision.reason, join_ids(conflicted_ids), <<>>),
       trace |-> DecisionTrace(1, T_will_go, "unknown", "unknown", decision, detected, old)]

InitDrift ==
  /\ anchors \in DriftStores
  /\ \E audit \in { DriftAudit(old) : old \in DriftSnapshots } :
       /\ gate_logs = <<audit.log>>
       /\ traces = <<audit.trace>>
  /\ profiles = <<>>
  /\ profile_anchors = <<>>
  /\ sw_matcher = "naive"
  /\ response = Response("start", 200, [none |-> TRUE], NoOut)
  /\ session = NoSession
  /\ mcp = NoCall

NextDrift == Replay

SpecDrift == InitDrift /\ [][NextDrift]_vars

\* the entries of a drift list for one anchor and one kind
DriftEntries(drift, kind, anchor_id) ==
  { k \in DOMAIN drift : drift[k].kind = kind /\ drift[k].anchor_id = anchor_id }

RowKinds == {"changed", "active flag changed", "level changed", "scope changed"}

\* what the named entry of an existing anchor reports
RowDiffers(kind, r, a) ==
  CASE kind = "changed" -> stable_hash(a) # r.anchor_hash
    [] kind = "active flag changed" -> a.active # r.active_snapshot
    [] kind = "level changed" -> a.level # r.level_snapshot
    [] kind = "scope changed" -> a.scope # r.scope_snapshot

NewActiveIds(rows) ==
  { i \in DOMAIN anchors : anchors[i].active }
    \ { rows[k].anchor_id : k \in DOMAIN rows }

\* C23: anchor_drift of replay itemizes exactly the divergences between the
\* snapshot and the current store: for a snapshot anchor that no longer
\* exists only a "missing (deleted)" entry; for one that exists one entry
\* for each of hash, active flag, level and scope that differs and none for
\* one that does not; and one "N new active anchors" entry exactly when
\* N > 0 active anchors lie outside the snapshot.  So the list is empty iff
\* every snapshot anchor exists with the level, scope, active flag and
\* statement of the snapshot and every active anchor is in the snapshot.
C23_DriftItemized ==
  (response.op = "replay" /\ response.status = 200) =>
    LET drift == response.out.anchor_drift
        rows == traces[response.in.trace_id].anchors
        new == DriftEntries(drift, "new active anchors added since trace (not replayed)", 0)
    IN  /\ \A k \in DOMAIN rows :
             IF rows[k].anchor_id \notin DOMAIN anchors
               THEN /\ Cardinality(DriftEntries(drift, "missing (deleted)", rows[k].anchor_id)) = 1
                    /\ \A kind \in RowKinds : DriftEntries(drift, kind, rows[k].anchor_id) = {}
               ELSE /\ DriftEntries(drift, "missing (deleted)", rows[k].anchor_id) = {}
                    /\ \A kind \in RowKinds :
                         Cardinality(DriftEntries(drift, kind, rows[k].anchor_id))
                           = IF RowDiffers(kind, rows[k], anchors[rows[k].anchor_id]) THEN 1 ELSE 0
        /\ Cardinality(new) = IF NewActiveIds(rows) # {} THEN 1 ELSE 0
        /\ \A k \in new : drift[k].after = IntToStr(Cardinality(NewActiveIds(rows)))
        /\ \A k \in DOMAIN drift :
             \/ k \in new
             \/ /\ drift[k].kind \in RowKinds \cup {"missing (deleted)"}
                /\ \E j \in DOMAIN rows : rows[j].anchor_id = drift[k].anchor_id
        /\ drift = <<>> <=>
             /\ \A k \in DOMAIN rows :
                  /\ rows[k].anchor_id \in DOMAIN anchors
                  /\ anchors[rows[k].anchor_id].level = rows[k].level_snapshot
                  /\ anchors[rows[k].anchor_id].scope = rows[k].scope_snapshot
                  /\ anchors[rows[k].anchor_id].active = rows[k].active_snapshot
                  /\ anchors[rows[k].anchor_id].statement = rows[k].statement_snapshot
             /\ NewActiveIds(rows) = {}

\* a replay that reports a deleted anchor and an edited level and scope
C23_Witness ==
  /\ response.op = "replay"
  /\ response.status = 200
  /\ \E k \in DOMAIN response.out.anchor_drift :
       response.out.anchor_drift[k].kind = "missing (deleted)"
  /\ \E k \in DOMAIN response.out.anchor_drift :
       response.out.anchor_drift[k].kind = "level changed"
  /\ \E k \in DOMAIN response.out.anchor_drift :
       response.out.anchor_drift[k].kind = "scope changed"

\* ------------------------------------------------------------------------
\* The lexical matcher on its own: a request and a list of anchors are
\* drawn from the inputs below and naive_conflicts is applied to them.
\* ------------------------------------------------------------------------
NaiveAnchorsOf(id) ==
  { [id |-> id, level |-> p.level, statement |-> p.statement, scope |-> p.scope, active |-> active] :
      p \in NaiveAnchorPool, active \in BOOLEAN }

NaiveAnchorLists ==
  {<<>>} \cup { <<a>> : a \in NaiveAnchorsOf(1) }
         \cup { <<a, b>> : a \in NaiveAnchorsOf(1), b \in NaiveAnchorsOf(2) }

NaiveInputs ==
  [request_summary : RequestPool \cup RefundRequestPool, anchors : NaiveAnchorLists]

InitNaive ==
  /\ anchors = <<>>
  /\ profiles = <<>>
  /\ profile_anchors = <<>>
  /\ gate_logs = <<>>
  /\ traces = <<>>
  /\ sw_matcher = "naive"
  /\ response \in { Response("naive_conflicts", 0, in, NoOut) : in \in NaiveInputs }
  /\ session = NoSession
  /\ mcp = NoCall

ApplyNaive ==
  /\ response.op = "naive_conflicts"
  /\ response.status = 0
  /\ response' =
       Response("naive_conflicts", 200, response.in,
                naive_conflicts(response.in.request_summary, response.in.anchors))
  /\ UNCHANGED <<store, session, mcp>>

NextNaive == ApplyNaive

SpecNaive == InitNaive /\ [][NextNaive]_vars

\* rules 1 and 2 of the claim for a request and a statement
SharedTokens(request_summary, statement) ==
  Range(_meaningful_tokens(request_summary)) \cap Range(_meaningful_tokens(statement))

SharedBigrams(request_summary, statement) ==
  _bigrams(_meaningful_tokens(request_summary)) \cap _bigrams(_meaningful_tokens(statement))

TextRuleHolds(request_summary, statement) ==
  \/ InversionOf(request_summary, statement)
  \/ Cardinality(SharedBigrams(request_summary, statement)) >= 1
  \/ Cardinality(SharedTokens(request_summary, statement)) >= 2

TextRuleTable == { p \in TextPairs : TextRuleHolds(p[1], p[2]) }

\* rule 3 of the claim for a request
MoneyRuleRequests ==
  { r \in AllRequests : _has_refund_word(r) /\ AmtGreaterInt(_max_money_amount(r), 100) }

\* the anchor is one the claim has the matcher return
ClaimFlags(request_summary, a) ==
  \/ <<request_summary, a.statement>> \in TextRuleTable
  \/ /\ request_summary \in MoneyRuleRequests
     /\ a.active
     /\ a.scope = PAYMENTS_REFUNDS

\* C24: the lexical matcher returns exactly the anchors of its input for
\* which a rule holds: negation inversion; at least one shared bigram or two
\* shared meaningful tokens; or a refund word with a currency amount
\* strictly above 100 in the request and an active anchor of scope
\* payments.refunds.  Each flagged anchor appears once, and whether an
\* anchor is flagged does not depend on the other anchors of the input.
C24_NaiveConflictsExact ==
  (response.op = "naive_conflicts" /\ response.status = 200) =>
    LET in == response.in
        hits == response.out
    IN  /\ { hits[k].id : k \in DOMAIN hits }
             = { in.anchors[i].id : i \in { j \in DOMAIN in.anchors :
                                              ClaimFlags(in.request_summary, in.anchors[j]) } }
        /\ \A k \in DOMAIN hits : hits[k] \in Range(in.anchors)
        /\ \A j, k \in DOMAIN hits : hits[j].id = hits[k].id => j = k
        /\ \A i \in DOMAIN in.anchors :
             (in.anchors[i] \in Range(hits))
               <=> naive_conflicts(in.request_summary, <<in.anchors[i]>>) # <<>>
        /\ in.request_summary = T_refund_100 =>
             \A k \in DOMAIN hits : <<T_refund_100, hits[k].statement>> \in TextRuleTable

\* the refund request above the threshold against a refunds anchor that
\* also shares two tokens with it, and an archived refunds anchor
C24_Witness ==
  /\ response.op = "naive_conflicts"
  /\ response.status = 200
  /\ response.in.request_summary = T_refund_10000
  /\ Len(response.in.anchors) = 2
  /\ response.in.anchors[1].statement = T_refund_review
  /\ response.in.anchors[1].active
  /\ response.in.anchors[2].statement = T_payments
  /\ response.in.anchors[2].scope = PAYMENTS_REFUNDS
  /\ ~response.in.anchors[2].active
  /\ Len(response.out) = 1

\* the claim's evidence for a flagged anchor: a text rule holds, or the
\* monetary trigger applies to it
EvidenceExists(request_summary, a) == ClaimFlags(request_summary, a)

\* C25: the explanation builder returns one explanation per matched anchor,
\* in the matcher's order, and gives the generic "triggered by the current
\* matching rules" text only for an anchor for which no evidence exists;
\* an anchor flagged through negation inversion, shared bigrams or tokens,
\* or the monetary trigger's refund word and amount, gets an explanation
\* that names that evidence.  The builder has no branch for the monetary
\* trigger: an anchor flagged by it alone gets the generic text.
C25_ExplanationsNameEvidence ==
  (response.op = "evaluate" /\ response.status = 200 /\ response.out.explanations # None) =>
    LET explanations == response.out.explanations[1]
        conflicted_ids == parse_id_list(gate_logs[response.out.log_id].conflicted_anchor_ids)
        request_summary == gate_logs[response.out.log_id].request_summary
    IN  /\ Len(explanations) = Len(conflicted_ids)
        /\ \A k \in DOMAIN explanations :
             LET a == anchors[conflicted_ids[k]]
             IN  /\ explanations[k].header = <<a.level, a.scope, a.statement>>
                 /\ (explanations[k].kind = "current matching rules")
                      => ~EvidenceExists(request_summary, a)

\* ------------------------------------------------------------------------
\* Requests as they arrive: the body and the query are validated against
\* the schema before the handler runs (422), the handler answers 404 for an
\* id it does not find.
\* ------------------------------------------------------------------------
\* TruthAnchorCreate: level ge=1 le=3, statement and scope min_length=1
TruthAnchorCreate(payload) ==
  /\ payload.level \in 1..3
  /\ Len(payload.statement) >= 1
  /\ Len(payload.scope) >= 1

post_anchor(payload) ==
  IF ~TruthAnchorCreate(payload)
    THEN /\ response' = Response("create_anchor", 422, [none |-> TRUE], NoOut)
         /\ UNCHANGED store
    ELSE create_anchor(payload)

\* GateEvaluateIn: request_summary min_length=1, arousal and dominance of
\* the enums
GateEvaluateIn(request_summary, arousal, dominance) ==
  /\ Len(request_summary) >= 1
  /\ arousal \in AffectValues
  /\ dominance \in AffectValues

post_evaluate(request_summary, arousal, dominance, profile_id) ==
  IF ~GateEvaluateIn(request_summary, arousal, dominance)
    THEN /\ response' = Response("evaluate", 422, [profile_id |-> profile_id], NoOut)
         /\ UNCHANGED store
    ELSE evaluate(request_summary, arousal, dominance, profile_id, NoScore)

\* the rows newest first
RECURSIVE Reversed(_)
Reversed(rows) ==
  IF rows = <<>> THEN <<>> ELSE Append(Reversed(Tail(rows)), Head(rows))

\* list_gate_logs without the since filter (rows carry no timestamp here)
list_gate_logs(limit, offset, decision) ==
  LET in == [limit |-> limit, offset |-> offset, decision |-> decision]
  IN  /\ response' =
           IF ~(limit >= 1 /\ limit <= 200 /\ offset >= 0)
             THEN Response("list_gate_logs", 422, in, NoOut)
           ELSE IF decision # None /\ decision[1] \notin {"proceed", "gate", "refuse"}
             THEN Response("list_gate_logs", 422, in, NoOut)
           ELSE LET rows == SelectSeq(Reversed(gate_logs),
                                      LAMBDA r : decision = None \/ r.decision = decision[1])
                    first == IF offset + 1 <= Len(rows) THEN offset + 1 ELSE Len(rows) + 1
                    last == IF offset + limit <= Len(rows) THEN offset + limit ELSE Len(rows)
                IN  Response("list_gate_logs", 200, in,
                             [items |-> SubSeq(rows, first, last), total |-> Len(rows),
                              limit |-> limit, offset |-> offset])
      /\ UNCHANGED store

\* valid and invalid anchor payloads
CheckedAnchorPool ==
  { AnchorIn(2, T_will_not_go, S_global), AnchorIn(0, T_will_not_go, S_global),
    AnchorIn(4, T_will_not_go, S_global), AnchorIn(3, <<>>, S_global) }

\* an affect value of the enum and one outside it
CheckedAffects == {"unknown", "angry"}

PostAnchor ==
  /\ \E payload \in CheckedAnchorPool : post_anchor(payload)
  /\ UNCHANGED <<session, mcp>>

PostEvaluate ==
  /\ \E request_summary \in ProfileRequestPool, arousal \in CheckedAffects, profile_id \in ProfileInputs :
       post_evaluate(request_summary, arousal, "unknown", profile_id)
  /\ UNCHANGED <<session, mcp>>

ListGateLogs ==
  /\ \E limit \in {0, 1, 50}, offset \in {0, 1}, decision \in {None, Some("gate"), Some("maybe")} :
       list_gate_logs(limit, offset, decision)
  /\ UNCHANGED <<session, mcp>>

NextChecked ==
  \/ PostAnchor
  \/ ArchiveAnchor
  \/ CreateProfile
  \/ AssignAnchors
  \/ PostEvaluate
  \/ ReframeSame
  \/ AcknowledgeSame
  \/ Replay
  \/ ListGateLogs

SpecChecked == Init /\ [][NextChecked]_vars

\* C26: every call that ends in a client error leaves anchors, profiles,
\* profile assignments, Gate Logs, traces and snapshots as they were:
\* evaluate with an unknown profile, reframe or acknowledge with an unknown
\* log, replay with an unknown trace, archive of an unknown anchor, an
\* assignment naming an unknown anchor (the previous assignments are kept),
\* an anchor with a level outside 1..3 or an empty statement, an evaluate
\* with an affect value outside the enum, a log listing with an invalid
\* decision filter.
C26_ClientErrorKeepsStore ==
  [][(response'.status >= 400 /\ response'.status <= 499) =>
       /\ anchors' = anchors
       /\ profiles' = profiles
       /\ profile_anchors' = profile_anchors
       /\ gate_logs' = gate_logs
       /\ traces' = traces]_vars

\* an assignment naming an unknown anchor was refused for a profile that
\* has an anchor assigned
C26_Witness ==
  /\ response.op = "assign_anchors"
  /\ response.status = 404
  /\ response.in.profile_id \in DOMAIN profiles
  /\ profile_anchors[response.in.profile_id] # <<>>
  /\ gate_logs # <<>>

\* the ids p for which the annotation reads <kind><p>
ParentsOf(row, kind) ==
  { p \in 1..MaxLogs : row.user_choice = <<kind, IntToStr(p)>> }

\* the parent annotations of a row, whatever their kind
AnnotatedParents(row) ==
  ParentsOf(row, "reframe_from:") \cup ParentsOf(row, "proceed_acknowledged:")

\* following the parent annotations from row i ends at a row without one
RECURSIVE EndsAtEvaluate(_, _, _)
EndsAtEvaluate(rows, i, fuel) ==
  IF rows[i].user_choice = <<>> THEN TRUE
  ELSE IF fuel = 0 THEN FALSE
  ELSE \E p \in AnnotatedParents(rows[i]) :
         p \in DOMAIN rows /\ EndsAtEvaluate(rows, p, fuel - 1)

\* C27: the audit chain is well-founded.  The row a reframe writes carries
\* reframe_from:<p>, the row an acknowledge writes carries
\* proceed_acknowledged:<p>, p being the id of a row that existed before
\* the call and smaller than the new row's id; the row an evaluate writes
\* carries no annotation; and from every row the chain of parents ends at
\* an evaluate row after finitely many steps.
C27_AuditChainWellFounded ==
  [][(response'.status = 200 /\ Len(gate_logs') = Len(gate_logs) + 1) =>
       LET row == gate_logs'[Len(gate_logs')]
       IN  /\ response'.op = "evaluate" => row.user_choice = <<>>
           /\ response'.op = "reframe" =>
                /\ ParentsOf(row, "reframe_from:") = {response'.in.log_id}
                /\ response'.in.log_id \in DOMAIN gate_logs
                /\ response'.in.log_id < row.id
           /\ response'.op = "acknowledge" =>
                /\ ParentsOf(row, "proceed_acknowledged:") = {response'.in.log_id}
                /\ response'.in.log_id \in DOMAIN gate_logs
                /\ response'.in.log_id < row.id
           /\ response'.op \in {"evaluate", "reframe", "acknowledge"}
           /\ \A i \in DOMAIN gate_logs' :
                EndsAtEvaluate(gate_logs', i, Len(gate_logs'))]_vars

\* the log holds an evaluate row and, after it, a row acknowledging it
C27_Witness ==
  /\ response.op = "acknowledge"
  /\ response.status = 200
  /\ Len(gate_logs) = 2
  /\ gate_logs[1].user_choice = <<>>
  /\ gate_logs[2].user_choice = <<"proceed_acknowledged:", IntToStr(1)>>

\* proceed_acknowledged is among the next actions of the reason code
AcknowledgeOffered(reason) ==
  \E i \in DOMAIN ActionsOfReason(reason) :
    ActionsOfReason(reason)[i] = "proceed_acknowledged"

\* C28: for every Gate Log row written by evaluate or reframe,
\* proceed_acknowledged is among the next actions decide attaches to the
\* row's reason code exactly when an acknowledge call on that row succeeds.
\* The first conjunct ties the row an evaluate or a reframe writes to the
\* next actions the call returned (evaluate returns them for decisions
\* other than proceed) and to the endpoint's precondition; the second is
\* the acknowledge call itself on such a row.
C28_AcknowledgeOfferedIffAccepted ==
  [][/\ (response'.status = 200 /\ response'.op \in {"evaluate", "reframe"}
           /\ Len(gate_logs') = Len(gate_logs) + 1) =>
          LET row == gate_logs'[Len(gate_logs')]
          IN  /\ response'.op = "reframe" =>
                   response'.out.next_actions = ActionsOfReason(row.reason)
              /\ (response'.op = "evaluate" /\ row.decision # "proceed") =>
                   response'.out.next_actions = Some(ActionsOfReason(row.reason))
              /\ AcknowledgeOffered(row.reason) <=> AckAllowed(row)
     /\ (response'.op = "acknowledge" /\ response' # response
           /\ response'.in.log_id \in DOMAIN gate_logs
           /\ gate_logs[response'.in.log_id].reason # "proceed_acknowledged") =>
          (response'.status = 200
             <=> AcknowledgeOffered(gate_logs[response'.in.log_id].reason))]_vars

\* a gate raised on a state mismatch with a level-2 anchor has just been
\* acknowledged
C28_Witness ==
  /\ response.op = "acknowledge"
  /\ response.status = 200
  /\ gate_logs[response.out.parent_log_id].reason = "state_mismatch_with_l2_anchor"
  /\ gate_logs[response.out.parent_log_id].user_choice = <<>>

\* the decision an evaluate of the trace's request and affect state yields
\* over the trace's snapshot anchors that are active now
DecisionOverStillActive(trace) ==
  LET rows == OrderByAnchorId(trace.anchors)
      anchor_ids == [i \in 1..Len(rows) |-> rows[i].anchor_id]
      still_active == SelectSeq(AnchorsOrderedNow(anchor_ids), LAMBDA a : a.active)
      conflicts == _detect_conflicts(trace.request_text, still_active, sw_matcher, NoScore).conflicts
  IN  decide(UserState(_norm_state(trace.arousal), _norm_state(trace.dominance)), IdsOf(conflicts), MaxLevel(conflicts))

\* C29: replay's decision_now and reason_now are the decision and reason
\* of an evaluate of the trace's request text and affect state over the
\* trace's originally considered anchors restricted to those still active;
\* an anchor archived since the trace does not contribute to decision_now.
C29_ReplayOverStillActive ==
  (response.op = "replay" /\ response.status = 200) =>
    /\ response.out.decision_now = DecisionOverStillActive(traces[response.in.trace_id]).decision
    /\ response.out.reason_now = DecisionOverStillActive(traces[response.in.trace_id]).reason

\* C30: a replay of a trace directly after the evaluate that produced it,
\* with no store change in between, returns an empty anchor_drift list,
\* for a global evaluation and for a profile-scoped one alike, also when
\* active anchors exist that are not assigned to the profile.
C30_ImmediateReplayNoDrift ==
  [][(/\ response.op = "evaluate"
      /\ response.status = 200
      /\ response'.op = "replay"
      /\ response'.status = 200
      /\ response'.in.trace_id = response.out.trace_id)
     => response'.out.anchor_drift = <<>>]_vars

====
